---- MODULE Spec2Model ----
(***************************************************************************)
(* The offline-aware API access layer of the Moodle desktop client:        *)
(* MoodleApiService (the gateway) and OfflineCacheService (the cache       *)
(* engine) over StorageService (the persistent key-value store).           *)
(*                                                                         *)
(* Every asynchronous function is a process whose position (pc) sits at    *)
(* one of its await points; one action is the code that runs between two   *)
(* await points.  Each StorageService operation takes effect atomically    *)
(* at one step.                                                            *)
(***************************************************************************)
EXTENDS Naturals, Integers, Sequences, FiniteSets, TLC

(***************************************************************************)
(* Bounds of the model.                                                    *)
(***************************************************************************)
\* number of gateway calls that may be in flight together
MaxCalls == 1
\* number of cache operations (put, get, getStale) that may be in flight together
MaxOps == 1
\* window online/offline events that may be queued, not yet dispatched
MaxEvents == 1
\* the clock stops advancing here (milliseconds)
MaxNow == 60001
\* puts a direct client of the cache issues in a run
MaxSerialPuts == 3
\* cache operations a direct client keeps in flight at once
MaxOverlap == 2

(***************************************************************************)
(* Program constants: offline-cache.service.ts                             *)
(***************************************************************************)
CACHE_PREFIX == "offline_cache::"
CACHE_INDEX_KEY == "offline_cache_index"
DEFAULT_TTL_MS == 60 * 60 * 1000
MAX_CACHE_ENTRIES == 200

\* Per-function TTL overrides (ms).
ttlMap ==
    [ core_enrol_get_users_courses            |-> 30 * 60 * 1000,
      core_course_get_contents                |-> 30 * 60 * 1000,
      core_webservice_get_site_info           |-> 24 * 60 * 60 * 1000,
      gradereport_overview_get_course_grades  |-> 15 * 60 * 1000,
      core_calendar_get_calendar_monthly_view |-> 15 * 60 * 1000,
      message_popup_get_popup_notifications   |-> 5 * 60 * 1000,
      core_message_get_conversations          |-> 5 * 60 * 1000,
      core_user_get_users_by_field            |-> 60 * 60 * 1000,
      core_files_get_files                    |-> 30 * 60 * 1000,
      mod_forum_get_forums_by_courses         |-> 5 * 60 * 1000,
      mod_forum_get_forum_discussions         |-> 2 * 60 * 1000,
      mod_forum_get_discussion_posts          |-> 60 * 1000,
      mod_forum_get_forum_discussion_posts    |-> 60 * 1000,
      mod_quiz_get_quizzes_by_courses         |-> 10 * 60 * 1000,
      mod_quiz_get_quiz_access_information    |-> 5 * 60 * 1000,
      mod_quiz_get_user_attempts              |-> 60 * 1000,
      mod_quiz_get_user_quiz_attempts         |-> 60 * 1000,
      mod_quiz_get_user_best_grade            |-> 2 * 60 * 1000,
      core_comment_get_comments               |-> 2 * 60 * 1000 ]

\* put, line 84:  this.ttlMap[wsFunction] ?? DEFAULT_TTL_MS
TtlFor(wsFunction) ==
    IF wsFunction \in DOMAIN ttlMap THEN ttlMap[wsFunction] ELSE DEFAULT_TTL_MS

(***************************************************************************)
(* Values.  null is the absent value of the store and of the cache.        *)
(***************************************************************************)
Null == [kind |-> "null"]

\* Response payloads the remote service can return.
Payloads == { [kind |-> "json", body |-> "d1"], [kind |-> "json", body |-> "d2"] }

\* A thrown Error.
Error(message) == [kind |-> "error", message |-> message]

\* A parameter object is the sequence of its properties in insertion order:
\* <<name, value>> for a number or a string, <<name, "object", properties>>
\* for an object and <<name, "array", items>> for an array, whose items are
\* <<value>>, <<"object", properties>> or <<"array", items>>.
ParamsPosts(discussionId) ==
    << <<"discussionid", discussionId>>, <<"sortby", "created">>,
       <<"sortdirection", "ASC">> >>
ParamsPost1 == ParamsPosts(1)
ParamsPost2 == ParamsPosts(2)
ParamsCourse(i) == << <<"courseid", i>> >>
\* AssignmentService.saveOnlineText, assignment.service.ts lines 101-112
ParamsSaveText(text) ==
    << <<"assignmentid", 5>>,
       <<"plugindata", "object",
         << <<"onlinetext", "object",
              << <<"text", text>>, <<"format", 1>>, <<"itemid", 0>> >> >> >> >> >>
\* MessageService.sendMessage, message.service.ts lines 66-71
ParamsSendMessage(text) ==
    << <<"conversationid", 7>>,
       <<"messages", "array", << <<"object", << <<"text", text>> >> >> >> >> >>
\* { courseids: [courseId] }
ParamsCourses(i) == << <<"courseids", "array", << <<i>> >> >> >>

\* Property names in the order Array.prototype.sort() gives them
\* (ascending UTF-16 code units).
KeyOrder == <<"assignmentid", "conversationid", "courseid", "courseids",
              "discussionid", "messages", "plugindata", "sortby", "sortdirection">>

(***************************************************************************)
(* buildKey: function name + JSON.stringify(params, sorted own keys)       *)
(***************************************************************************)
HasProp(params, name) == \E i \in 1..Len(params) : params[i][1] = name

PropValue(params, name) ==
    params[CHOOSE i \in 1..Len(params) : params[i][1] = name][2]

\* Object.keys(params): the own property names in insertion order
ObjectKeys(params) == [i \in 1..Len(params) |-> params[i][1]]

\* position of a name in the code-unit order
Rank(name) == CHOOSE i \in 1..Len(KeyOrder) : KeyOrder[i] = name

\* Array.prototype.sort() on distinct names: ascending code-unit order
SortNames(names) ==
    LET all == { names[i] : i \in 1..Len(names) }
    IN  [i \in 1..Len(names) |->
            CHOOSE n \in all : Cardinality({ m \in all : Rank(m) < Rank(n) }) = i - 1]

\* the replacer the key is built with, had the names been left unsorted
SortedKeys_InsertionOrder(params) == ObjectKeys(params)

\* Object.keys(params).sort()
SortedKeys(params) == SortNames(ObjectKeys(params))

\* the property of that name
PropOf(params, name) == params[CHOOSE i \in 1..Len(params) : params[i][1] = name]

RECURSIVE JsonMembers(_, _, _)
RECURSIVE JsonItems(_, _)
RECURSIVE JsonNested(_, _, _)

\* a value that is an object or an array: the replacer array selects the
\* properties of every object, at whatever depth; array items are all kept
JsonNested(tag, inner, list) ==
    IF tag = "object" THEN "{" \o JsonMembers(inner, list, list) \o "}"
    ELSE "[" \o JsonItems(inner, list) \o "]"

JsonItems(items, list) ==
    IF items = <<>> THEN ""
    ELSE LET item == Head(items)
             rest == JsonItems(Tail(items), list)
             this == IF Len(item) = 1 THEN ToString(item[1])
                     ELSE JsonNested(item[1], item[2], list)
         IN  IF rest = "" THEN this ELSE this \o "," \o rest

\* the members of the object, for the names of the replacer array in order
JsonMembers(params, names, list) ==
    IF names = <<>> THEN ""
    ELSE LET n == Head(names)
             rest == JsonMembers(params, Tail(names), list)
             prop == PropOf(params, n)
             this == "\"" \o n \o "\":"
                     \o (IF Len(prop) = 2 THEN ToString(prop[2])
                         ELSE JsonNested(prop[2], prop[3], list))
         IN  IF ~HasProp(params, n) THEN rest
             ELSE IF rest = "" THEN this
             ELSE this \o "," \o rest

\* JSON.stringify(params, replacerArray)
JsonStringify(params, names) == "{" \o JsonMembers(params, names, names) \o "}"

buildKey(wsFunction, params) ==
    CACHE_PREFIX \o wsFunction \o "::" \o JsonStringify(params, SortedKeys(params))

(***************************************************************************)
(* State                                                                   *)
(***************************************************************************)
VARIABLES
    siteUrl,        \* MoodleApiService.siteUrl
    token,          \* MoodleApiService.token
    navOnline,      \* navigator.onLine
    onlineSignal,   \* OfflineCacheService.onlineSignal
    events,         \* window 'online'/'offline' events queued for dispatch
    now,            \* Date.now()
    store,          \* StorageService: cache key -> CachedEntry, for the keys present
    index,          \* StorageService: the record under CACHE_INDEX_KEY, or Null
    calls,          \* MoodleApiService.call invocations, by slot
    ops,            \* OfflineCacheService put/get/getStale invocations, by slot
    putCount,       \* number of puts a direct client of the cache has issued
    lastPut,        \* the last put a direct client issued: its key, data and time
                    \* and the index keys it found; a clearAll issued since; or Null
    asset,          \* a file URL field of a view model that getFileUrl rewrites, or Null
    activeStates,   \* QuizQuestionEngine.activeStates: the ids of its state objects
    states,         \* the QuestionState objects the engine and its listeners hold, by id
    dom,            \* the question containers in the document, by container id
    lastClick,      \* the click the page has just delivered to a container: on what,
                    \* and the state objects and markup it found; or Null
    run,            \* the initQuestions call that is suspended at an await: the
                    \* container it is at and what it waits for; or Null
    onResize        \* the ids of the state objects whose resize listener is
                    \* attached to the window by a call that ran in steps

\* the gateway, the cache and the store
cacheVars == <<siteUrl, token, navOnline, onlineSignal, events, now, store, index,
               calls, ops, putCount, lastPut>>

\* the question engine and the markup it works on
\* an initQuestions call followed await by await
scanVars == <<run, onResize>>

engineVars == <<activeStates, states, dom, lastClick, scanVars>>

\* what no gateway or cache operation touches
uiVars == <<asset, engineVars>>

vars == <<cacheVars, uiVars>>

CallIds == 1..MaxCalls
OpIds == 1..MaxOps

SiteUrls == {"https://moodle.example"}
Tokens == {"tokA"}

\* The (function, params) pairs the feature services pass to the gateway.
GatewayInputs ==
    { <<"mod_forum_get_discussion_posts", ParamsPost1>> }

\* Clock advances between two steps (ms): up to, and one past, the TTL of
\* mod_forum_get_discussion_posts.
TickSteps == { TtlFor("mod_forum_get_discussion_posts"),
               TtlFor("mod_forum_get_discussion_posts") + 1 }

(***************************************************************************)
(* StorageService, seen from the cache engine                              *)
(***************************************************************************)
\* StorageService.get: the stored value, or null
StorageGet(key) == IF key \in DOMAIN store THEN store[key] ELSE Null

\* StorageService.set
StorageSet(key, value) ==
    [k \in (DOMAIN store) \cup {key} |-> IF k = key THEN value ELSE store[k]]

\* StorageService.remove
StorageRemove(key) == [k \in (DOMAIN store) \ {key} |-> store[k]]

(***************************************************************************)
(* OfflineCacheService: the code between the storage operations            *)
(***************************************************************************)
\* put, lines 83-92
MakeEntry(wsFunction, params, data, t) ==
    [ kind       |-> "entry",
      key        |-> buildKey(wsFunction, params),
      data       |-> data,
      timestamp  |-> t,
      ttl        |-> TtlFor(wsFunction),
      wsFunction |-> wsFunction ]

\* Expired with the boundary wrong: an entry exactly as old as its TTL expires
Expired_AtTtl(entry, online, t) == online /\ (t - entry.timestamp) >= entry.ttl

\* Expired without the connectivity test: the TTL is enforced offline too
Expired_AlwaysChecks(entry, online, t) == (t - entry.timestamp) > entry.ttl

\* get, lines 107-110:  isOnline() and Date.now() - entry.timestamp > entry.ttl
Expired(entry, online, t) == online /\ (t - entry.timestamp) > entry.ttl

\* get, lines 104-113
GetResult(entry, online, t) ==
    IF entry = Null THEN Null
    ELSE IF Expired(entry, online, t) THEN Null
    ELSE entry.data

\* getStale, line 120
GetStaleResult(entry) == IF entry # Null THEN entry.data ELSE Null

\* updateIndex, lines 140-144:  the stored index, or a new empty one
IndexOrEmpty(idx) ==
    IF idx # Null THEN idx
    ELSE [kind |-> "index", keys |-> <<>>, totalSize |-> 0, lastUpdated |-> 0]

\* MoveToEnd that leaves a key already listed where it is
MoveToEnd_KeepsPlace(keys, key) ==
    IF \E i \in 1..Len(keys) : keys[i] = key THEN keys ELSE Append(keys, key)

\* MoveToEnd that pushes the key without filtering it out first
MoveToEnd_Appends(keys, key) == Append(keys, key)

\* updateIndex, lines 147-149:  filter the key out, push it at the end
MoveToEnd(keys, key) == Append(SelectSeq(keys, LAMBDA k : k # key), key)

\* evictIfNeeded, line 158
OverCapacity(idx) == idx # Null /\ Len(idx.keys) > MAX_CACHE_ENTRIES

\* evictIfNeeded, line 161:  keys.splice(0, length - MAX) returns the head ...
SplicedOut(keys) == SubSeq(keys, 1, Len(keys) - MAX_CACHE_ENTRIES)

\* ... and leaves the tail in place
SplicedRest(keys) == SubSeq(keys, Len(keys) - MAX_CACHE_ENTRIES + 1, Len(keys))

(***************************************************************************)
(* MoodleApiService: the code between the await points                     *)
(***************************************************************************)
\* call, line 48
NotConfigured(s, t) == s = "" \/ t = ""

\* What the remote end can answer.  transport: the fetch promise rejects
\* ("reject"), or resolves with response.ok false ("status") or true ("ok");
\* body: not JSON ("malformed"), or a JSON object whose exception and
\* errorcode members are absent ("") or the non-empty strings Moodle sends.
Responses ==
    { [transport |-> "reject", body |-> "none", exception |-> "", errorcode |-> "", data |-> Null],
      [transport |-> "status", body |-> "none", exception |-> "", errorcode |-> "", data |-> Null],
      [transport |-> "ok", body |-> "malformed", exception |-> "", errorcode |-> "", data |-> Null] }
    \cup { [transport |-> "ok", body |-> "json", exception |-> x, errorcode |-> e, data |-> Null] :
             <<x, e>> \in { <<"moodle_exception", "invalidtoken">>,
                            <<"moodle_exception", "">>,
                            <<"", "invalidtoken">> } }
    \cup { [transport |-> "ok", body |-> "json", exception |-> "", errorcode |-> "", data |-> d] :
             d \in Payloads }

\* a well-formed body that carries the error envelope
IsErrorEnvelope(resp) ==
    resp.transport = "ok" /\ resp.body = "json"
        /\ (resp.exception # "" \/ resp.errorcode # "")

\* a failure below the application protocol
IsTransportFailure(resp) == resp.transport \in {"reject", "status"}

\* fetchFromNetwork, lines 93-111:  what it throws, or the data it returns
FetchFromNetwork(resp) ==
    IF resp.transport = "reject"
        THEN [threw |-> TRUE, value |-> Error("TypeError: Failed to fetch")]
    ELSE IF resp.transport = "status"                              \* line 99
        THEN [threw |-> TRUE, value |-> Error("HTTP status")]
    ELSE IF resp.body = "malformed"                                \* line 103
        THEN [threw |-> TRUE, value |-> Error("SyntaxError")]
    ELSE IF resp.exception # "" \/ resp.errorcode # ""             \* line 106
        THEN [threw |-> TRUE, value |-> Error("Moodle WS Error")]
    ELSE [threw |-> FALSE, value |-> resp.data]

NOT_CONFIGURED == Error("API not configured")
OFFLINE_NO_DATA == Error("Offline - keine gecachten Daten")
STORE_FAILURE == Error("store failure")

(***************************************************************************)
(* Processes                                                               *)
(***************************************************************************)
\* A slot of MoodleApiService.call.  entry and err are the locals that live
\* across an await; outcome/value are how the promise settled; via, net,
\* read and wrote record which return statement was taken, whether fetch()
\* was invoked, whether a cache read was invoked and whether put was invoked.
IdleCall ==
    [ pc |-> "idle", wsFunction |-> "", params |-> <<>>, skipCache |-> FALSE,
      entry |-> Null, err |-> Null, resp |-> "", outcome |-> "pending", value |-> Null,
      via |-> "", net |-> FALSE, read |-> FALSE, wrote |-> FALSE,
      storeFailed |-> FALSE,
      sent |-> "" ]     \* set by an account switch during the call: the token
                        \* its request left under, or "before"

\* A slot of an OfflineCacheService operation.  entry is the entry being
\* written (put) or the entry read (get, getStale); idx is the local copy of
\* the index; toRemove are the keys whose removal is still outstanding.
IdleOp ==
    [ pc |-> "idle", kind |-> "", wsFunction |-> "", params |-> <<>>, key |-> "",
      entry |-> Null, idx |-> Null,
      toRemove |-> {}, rejected |-> FALSE, outcome |-> "pending", value |-> Null ]

\* slots are handed out lowest first
FirstIdle(procs, ids) ==
    CHOOSE i \in ids : procs[i].pc = "idle" /\ \A j \in ids : procs[j].pc = "idle" => i <= j

HasIdle(procs, ids) == \E i \in ids : procs[i].pc = "idle"

\* A settled promise is consumed (its awaiting continuation is a microtask)
\* before any other task runs.
NoneSettled ==
    /\ \A c \in DOMAIN calls : calls[c].pc # "done"
    /\ \A o \in DOMAIN ops : ops[o].pc # "done"

CallKey(c) == buildKey(calls[c].wsFunction, calls[c].params)

\* the promise settles; the locals are gone
Returned(rec, v, how) ==
    [rec EXCEPT !.pc = "done", !.outcome = "returned", !.value = v, !.via = how,
                !.entry = Null, !.err = Null]

Threw(rec, e) ==
    [rec EXCEPT !.pc = "done", !.outcome = "threw", !.value = e,
                !.entry = Null, !.err = Null]

\* put, lines 83-94:  the entry is built, then storage.set is awaited
PutStarted(wsFunction, params, data, t) ==
    [IdleOp EXCEPT !.pc = "set", !.kind = "put",
                   !.wsFunction = wsFunction, !.params = params,
                   !.key = buildKey(wsFunction, params),
                   !.entry = MakeEntry(wsFunction, params, data, t)]

\* no asset URL has been rewritten, no question container has been scanned
NothingShown ==
    /\ asset = Null
    /\ activeStates = <<>>
    /\ states = << >>
    /\ dom = << >>
    /\ lastClick = Null
    /\ run = Null
    /\ onResize = <<>>

(***************************************************************************)
(* Initial state: the services have just been constructed, nobody is       *)
(* logged in, the store holds no cached response.                          *)
(***************************************************************************)
Init ==
    /\ siteUrl = ""
    /\ token = ""
    /\ navOnline \in BOOLEAN
    /\ onlineSignal = navOnline            \* signal(navigator.onLine), line 39
    /\ events = <<>>
    /\ now = 0
    /\ store = << >>
    /\ index = Null
    /\ calls = [c \in CallIds |-> IdleCall]
    /\ ops = [o \in OpIds |-> IdleOp]
    /\ putCount = 0
    /\ lastPut = Null
    /\ NothingShown

(***************************************************************************)
(* Environment                                                             *)
(***************************************************************************)
Tick(d) ==
    /\ NoneSettled
    /\ now + d <= MaxNow
    /\ now' = now + d
    /\ UNCHANGED <<siteUrl, token, navOnline, onlineSignal, events, store, index,
                   calls, ops, putCount, lastPut, uiVars>>

\* The device gains or loses connectivity: navigator.onLine changes at once,
\* the window event is queued.
ConnectivityChanges ==
    /\ NoneSettled
    /\ Len(events) < MaxEvents
    /\ navOnline' = ~navOnline
    /\ events' = Append(events, IF navOnline THEN "offline" ELSE "online")
    /\ UNCHANGED <<siteUrl, token, onlineSignal, now, store, index, calls, ops, putCount, lastPut, uiVars>>

\* The listeners of lines 71-72 run.
DispatchEvent ==
    /\ NoneSettled
    /\ events # <<>>
    /\ onlineSignal' = (Head(events) = "online")
    /\ events' = Tail(events)
    /\ UNCHANGED <<siteUrl, token, navOnline, now, store, index, calls, ops, putCount, lastPut, uiVars>>

\* MoodleApiService.configure, as AuthService calls it after login, session
\* restore or account switch.
Configure(s, t) ==
    /\ NoneSettled
    /\ <<s, t>> # <<siteUrl, token>>
    /\ siteUrl' = s
    /\ token' = t
    /\ UNCHANGED <<navOnline, onlineSignal, events, now, store, index, calls, ops, putCount, lastPut, uiVars>>

\* AuthService.logout: the session record is removed, then configure('', '').
Logout ==
    /\ NoneSettled
    /\ <<siteUrl, token>> # <<"", "">>
    /\ siteUrl' = ""
    /\ token' = ""
    /\ UNCHANGED <<navOnline, onlineSignal, events, now, store, index, calls, ops, putCount, lastPut, uiVars>>

(***************************************************************************)
(* MoodleApiService.call                                                   *)
(***************************************************************************)
\* CallRoute with the bypass flag never consulted
CallRoute_IgnoresSkip(s, t, online, skipCache) ==
    IF s = "" \/ t = "" THEN "notConfigured"
    ELSE IF ~online THEN "offlineRead"
    ELSE "freshRead"

\* CallRoute with the connectivity check ahead of the configuration check
CallRoute_OfflineFirst(s, t, online, skipCache) ==
    IF ~online THEN "offlineRead"
    ELSE IF s = "" \/ t = "" THEN "notConfigured"
    ELSE IF ~skipCache THEN "freshRead"
    ELSE "fetch"

\* lines 48-66, up to the first await: where the call goes
CallRoute(s, t, online, skipCache) ==
    IF NotConfigured(s, t) THEN "notConfigured"
    ELSE IF ~online THEN "offlineRead"
    ELSE IF ~skipCache THEN "freshRead"
    ELSE "fetch"

StartCall(c, wsFunction, params, skipCache) ==
    /\ NoneSettled
    /\ HasIdle(calls, DOMAIN calls)
    /\ c = FirstIdle(calls, DOMAIN calls)
    /\ LET route == CallRoute(siteUrl, token, navOnline, skipCache)
           rec == [IdleCall EXCEPT !.wsFunction = wsFunction, !.params = params,
                                   !.skipCache = skipCache]
       IN  calls' = [calls EXCEPT ![c] =
               CASE route = "notConfigured" -> Threw(rec, NOT_CONFIGURED)
                 [] route = "offlineRead" -> [rec EXCEPT !.pc = "offlineRead", !.read = TRUE]
                 [] route = "freshRead" -> [rec EXCEPT !.pc = "freshRead", !.read = TRUE]
                 [] route = "fetch" -> [rec EXCEPT !.pc = "fetch", !.net = TRUE]]
    /\ UNCHANGED <<siteUrl, token, navOnline, onlineSignal, events, now, store, index,
                   ops, putCount, lastPut, uiVars>>

\* OfflineResult reading through get's TTL check instead of getStale
OfflineResult_RespectsTtl(rec, entry) ==
    IF entry # Null /\ ~(now - entry.timestamp > entry.ttl)
        THEN Returned(rec, entry.data, "offlineCache")
        ELSE Threw(rec, OFFLINE_NO_DATA)

\* lines 54-56: getStale's storage read resolves
OfflineResult(rec, entry) ==
    IF GetStaleResult(entry) # Null
        THEN Returned(rec, GetStaleResult(entry), "offlineCache")
        ELSE Threw(rec, OFFLINE_NO_DATA)

CallOfflineRead(c) ==
    /\ NoneSettled
    /\ calls[c].pc = "offlineRead"
    /\ calls' = [calls EXCEPT ![c] = OfflineResult(calls[c], StorageGet(CallKey(c)))]
    /\ UNCHANGED <<siteUrl, token, navOnline, onlineSignal, events, now, store, index,
                   ops, putCount, lastPut, uiVars>>

\* lines 61, 101-104: get's storage read resolves; without an entry get
\* returns null and the request is issued
FreshReadResult(rec, entry) ==
    IF entry = Null
        THEN [rec EXCEPT !.pc = "fetch", !.net = TRUE]
        ELSE [rec EXCEPT !.pc = "freshCheck", !.entry = entry]

CallFreshRead(c) ==
    /\ NoneSettled
    /\ calls[c].pc = "freshRead"
    /\ calls' = [calls EXCEPT ![c] = FreshReadResult(calls[c], StorageGet(CallKey(c)))]
    /\ UNCHANGED <<siteUrl, token, navOnline, onlineSignal, events, now, store, index,
                   ops, putCount, lastPut, uiVars>>

\* lines 62, 106-113: get's continuation checks the TTL, call returns the hit
\* or issues the request
FreshCheckResult(rec, online, t) ==
    IF GetResult(rec.entry, online, t) # Null
        THEN Returned(rec, GetResult(rec.entry, online, t), "freshCache")
        ELSE [rec EXCEPT !.pc = "fetch", !.net = TRUE]

CallFreshCheck(c) ==
    /\ NoneSettled
    /\ calls[c].pc = "freshCheck"
    /\ calls' = [calls EXCEPT ![c] = FreshCheckResult(calls[c], onlineSignal, now)]
    /\ UNCHANGED <<siteUrl, token, navOnline, onlineSignal, events, now, store, index,
                   ops, putCount, lastPut, uiVars>>

\* how the response is classified by the protocol (section 6 of the design)
RespClass(resp) ==
    IF IsTransportFailure(resp) THEN "transport"
    ELSE IF IsErrorEnvelope(resp) THEN "envelope"
    ELSE IF resp.body = "malformed" THEN "malformed"
    ELSE "data"

\* lines 72-74: the catch clause takes whatever fetchFromNetwork threw
Caught(rec, resp) ==
    [rec EXCEPT !.pc = "staleRead", !.err = FetchFromNetwork(resp).value,
                !.resp = RespClass(resp)]

\* Fetched with the put awaited before the return
Fetched_AwaitsPut(rec, resp) ==
    [rec EXCEPT !.pc = "awaitPut", !.resp = RespClass(resp), !.wrote = TRUE]

\* lines 66-71: the data is handed to put, not awaited, and returned
Fetched(rec, resp) ==
    [Returned(rec, FetchFromNetwork(resp).value, "network")
        EXCEPT !.resp = RespClass(resp), !.wrote = TRUE]

\* the request settles and fetchFromNetwork throws
CallFetchFails(c, resp) ==
    /\ NoneSettled
    /\ calls[c].pc = "fetch"
    /\ FetchFromNetwork(resp).threw
    /\ calls' = [calls EXCEPT ![c] = Caught(calls[c], resp)]
    /\ UNCHANGED <<siteUrl, token, navOnline, onlineSignal, events, now, store, index,
                   ops, putCount, lastPut, uiVars>>

\* the request settles and fetchFromNetwork returns
CallFetchSucceeds(c, resp) ==
    /\ NoneSettled
    /\ calls[c].pc = "fetch"
    /\ ~FetchFromNetwork(resp).threw
    /\ HasIdle(ops, DOMAIN ops)
    /\ calls' = [calls EXCEPT ![c] = Fetched(calls[c], resp)]
    /\ ops' = [ops EXCEPT ![FirstIdle(ops, DOMAIN ops)] =
                  PutStarted(calls[c].wsFunction, calls[c].params,
                             FetchFromNetwork(resp).value, now)]
    /\ UNCHANGED <<siteUrl, token, navOnline, onlineSignal, events, now, store, index,
                   putCount, lastPut, uiVars>>

\* StaleResult without the fallback: the caught error is rethrown
StaleResult_NoFallback(rec, entry) == Threw(rec, rec.err)

\* lines 74-76: getStale's storage read resolves
StaleResult(rec, entry) ==
    IF GetStaleResult(entry) # Null
        THEN Returned(rec, GetStaleResult(entry), "staleFallback")
        ELSE Threw(rec, rec.err)

CallStaleRead(c) ==
    /\ NoneSettled
    /\ calls[c].pc = "staleRead"
    /\ calls' = [calls EXCEPT ![c] = StaleResult(calls[c], StorageGet(CallKey(c)))]
    /\ UNCHANGED <<siteUrl, token, navOnline, onlineSignal, events, now, store, index,
                   ops, putCount, lastPut, uiVars>>

\* ReadRejected taking the rejected read for a read that found nothing
ReadRejected_AsMiss(rec, e) ==
    CASE rec.pc = "offlineRead" -> OfflineResult(rec, Null)
      [] rec.pc = "freshRead" -> FreshReadResult(rec, Null)
      [] rec.pc = "staleRead" -> StaleResult(rec, Null)

\* get (line 102) and getStale (line 119) await storage.get without a try:
\* they reject with what the store rejected with.  call awaits them at
\* lines 54 and 61, outside its try, and at line 74, inside its catch
\* clause: in each place the rejection leaves call as it is
ReadRejected(rec, e) == Threw(rec, e)

\* StorageService.get rejects under an awaited cache read: nothing catches it
CallStorageFails(c) ==
    /\ NoneSettled
    /\ calls[c].pc \in {"offlineRead", "freshRead", "staleRead"}
    /\ calls' = [calls EXCEPT ![c] =
                    ReadRejected([calls[c] EXCEPT !.storeFailed = TRUE], STORE_FAILURE)]
    /\ UNCHANGED <<siteUrl, token, navOnline, onlineSignal, events, now, store, index,
                   ops, putCount, lastPut, uiVars>>

\* the caller has consumed the settled promise
ForgetCall(c) ==
    /\ calls[c].pc = "done"
    /\ calls' = [calls EXCEPT ![c] = IdleCall]
    /\ UNCHANGED <<siteUrl, token, navOnline, onlineSignal, events, now, store, index,
                   ops, putCount, lastPut, uiVars>>

(***************************************************************************)
(* OfflineCacheService.put, step by step                                   *)
(***************************************************************************)
\* the promise settles; of the invocation only its arguments and key are kept
OpDone(rec) ==
    [IdleOp EXCEPT !.pc = "done", !.kind = rec.kind, !.key = rec.key,
                   !.wsFunction = rec.wsFunction, !.params = rec.params,
                   !.outcome = "returned"]

OpThrew(rec) ==
    [IdleOp EXCEPT !.pc = "done", !.kind = rec.kind, !.key = rec.key,
                   !.wsFunction = rec.wsFunction, !.params = rec.params,
                   !.outcome = "threw", !.value = STORE_FAILURE]

\* line 94:  await this.storage.set(key, entry)
PutSet(o) ==
    /\ NoneSettled
    /\ ops[o].pc = "set"
    /\ store' = StorageSet(ops[o].key, ops[o].entry)
    /\ ops' = [ops EXCEPT ![o].pc = "idxRead"]
    /\ UNCHANGED <<siteUrl, token, navOnline, onlineSignal, events, now, index, calls,
                   putCount, lastPut, uiVars>>

\* updateIndex, lines 140-150: the index is read and the key moved to its end
IndexWithKey(idx, key, t) ==
    [IndexOrEmpty(idx) EXCEPT !.keys = MoveToEnd(IndexOrEmpty(idx).keys, key),
                              !.lastUpdated = t]

PutIndexRead(o) ==
    /\ NoneSettled
    /\ ops[o].pc = "idxRead"
    /\ ops' = [ops EXCEPT ![o].pc = "idxWrite",
                          ![o].idx = IndexWithKey(index, ops[o].key, now)]
    /\ UNCHANGED <<siteUrl, token, navOnline, onlineSignal, events, now, store, index,
                   calls, putCount, lastPut, uiVars>>

\* updateIndex, line 152:  await this.storage.set(CACHE_INDEX_KEY, index)
PutIndexWrite(o) ==
    /\ NoneSettled
    /\ ops[o].pc = "idxWrite"
    /\ index' = ops[o].idx
    /\ ops' = [ops EXCEPT ![o].pc = "evictRead"]
    /\ UNCHANGED <<siteUrl, token, navOnline, onlineSignal, events, now, store, calls,
                   putCount, lastPut, uiVars>>

\* the index after splice(0, length - MAX) has taken the head off it
IndexSpliced(idx) == [idx EXCEPT !.keys = SplicedRest(idx.keys)]

\* the keys splice returned
KeysToRemove(idx) == { SplicedOut(idx.keys)[i] : i \in 1..Len(SplicedOut(idx.keys)) }

\* evictIfNeeded, lines 157-162: the index is read; at or below capacity the
\* put is complete, above it the removals of the spliced keys are started
EvictReadResult(rec, idx) ==
    IF ~OverCapacity(idx) THEN OpDone(rec)
    ELSE [rec EXCEPT !.pc = "evictRemove", !.idx = IndexSpliced(idx),
                     !.toRemove = KeysToRemove(idx)]

PutEvictRead(o) ==
    /\ NoneSettled
    /\ ops[o].pc = "evictRead"
    /\ ops' = [ops EXCEPT ![o] = EvictReadResult(ops[o], index)]
    /\ UNCHANGED <<siteUrl, token, navOnline, onlineSignal, events, now, store, index,
                   calls, putCount, lastPut, uiVars>>

\* lines 162-164: one of the removals takes effect; after the last one
\* Promise.all resolves and lastUpdated is set
AfterRemoval(rec, key, t) ==
    IF rec.toRemove \ {key} # {}
        THEN [rec EXCEPT !.toRemove = rec.toRemove \ {key}]
        ELSE [rec EXCEPT !.toRemove = {}, !.pc = "evictWrite", !.idx.lastUpdated = t]

PutEvictRemove(o, key) ==
    /\ NoneSettled
    /\ ops[o].pc = "evictRemove"
    /\ key \in ops[o].toRemove
    /\ store' = StorageRemove(key)
    /\ ops' = [ops EXCEPT ![o] = AfterRemoval(ops[o], key, now)]
    /\ UNCHANGED <<siteUrl, token, navOnline, onlineSignal, events, now, index, calls,
                   putCount, lastPut, uiVars>>

\* line 165:  await this.storage.set(CACHE_INDEX_KEY, index)
PutEvictWrite(o) ==
    /\ NoneSettled
    /\ ops[o].pc = "evictWrite"
    /\ index' = ops[o].idx
    /\ ops' = [ops EXCEPT ![o] = OpDone(ops[o])]
    /\ UNCHANGED <<siteUrl, token, navOnline, onlineSignal, events, now, store, calls,
                   putCount, lastPut, uiVars>>

\* StorageService.get rejects under put: the put rejects
PutReadFails(o) ==
    /\ NoneSettled
    /\ ops[o].pc \in {"idxRead", "evictRead"}
    /\ ops' = [ops EXCEPT ![o] = OpThrew(ops[o])]
    /\ UNCHANGED <<siteUrl, token, navOnline, onlineSignal, events, now, store, index,
                   calls, putCount, lastPut, uiVars>>

\* StorageService.set rejects under put: the put rejects; the value may
\* (Tauri: set took effect, save failed) or may not (localStorage quota)
\* have been written
PutWriteFails(o, landed) ==
    /\ NoneSettled
    /\ ops[o].pc \in {"set", "idxWrite"}
    /\ store' = IF ops[o].pc = "set" /\ landed
                THEN StorageSet(ops[o].key, ops[o].entry) ELSE store
    /\ index' = IF ops[o].pc = "idxWrite" /\ landed THEN ops[o].idx ELSE index
    /\ ops' = [ops EXCEPT ![o] = OpThrew(ops[o])]
    /\ UNCHANGED <<siteUrl, token, navOnline, onlineSignal, events, now, calls,
                   putCount, lastPut, uiVars>>

\* the settled promise of a cache operation is dropped
ReleaseOp(o) ==
    /\ ops[o].pc = "done"
    /\ ops' = [ops EXCEPT ![o] = IdleOp]
    /\ UNCHANGED <<siteUrl, token, navOnline, onlineSignal, events, now, store, index,
                   calls, putCount, lastPut, uiVars>>

(***************************************************************************)
(* The gateway and the cache under it                                      *)
(***************************************************************************)
CallStep(c) ==
    \/ \E in \in GatewayInputs, skipCache \in BOOLEAN : StartCall(c, in[1], in[2], skipCache)
    \/ CallOfflineRead(c)
    \/ CallFreshRead(c)
    \/ CallFreshCheck(c)
    \/ \E resp \in Responses : CallFetchFails(c, resp)
    \/ \E resp \in Responses : CallFetchSucceeds(c, resp)
    \/ CallStaleRead(c)
    \/ CallStorageFails(c)
    \/ ForgetCall(c)

\* The removal steps of evictIfNeeded are left out of Next: under it the
\* index never holds more keys than GatewayInputs has members, so line 158
\* always returns (BelowCapacity).
PutStep(o) ==
    \/ PutSet(o)
    \/ PutIndexRead(o)
    \/ PutIndexWrite(o)
    \/ PutEvictRead(o)
    \/ PutReadFails(o)
    \/ \E landed \in BOOLEAN : PutWriteFails(o, landed)
    \/ ReleaseOp(o)

Environment ==
    \/ \E d \in TickSteps : Tick(d)
    \/ ConnectivityChanges
    \/ DispatchEvent
    \/ \E s \in SiteUrls \cup {""}, t \in Tokens \cup {""} : Configure(s, t)
    \/ Logout

Next ==
    \/ \E c \in CallIds : CallStep(c)
    \/ \E o \in OpIds : PutStep(o)
    \/ Environment

Spec == Init /\ [][Next]_vars

\* no put of Spec ever finds the index above capacity
BelowCapacity ==
    /\ ~OverCapacity(index)
    /\ \A o \in OpIds : ops[o].pc \notin {"evictRemove", "evictWrite"}

(***************************************************************************)
(* The cache engine under a client that calls put and get directly, one    *)
(* operation at a time, on a store that works.                             *)
(***************************************************************************)
FILL_FUNCTION == "core_course_get_contents"

FillKey(i) == buildKey(FILL_FUNCTION, ParamsCourse(i))

FillPayload == [kind |-> "json", body |-> "d0"]

\* the store and the index after puts of courses 1..n at time 0
PrefilledStore(n) ==
    [k \in {FillKey(i) : i \in 1..n} |->
        MakeEntry(FILL_FUNCTION, ParamsCourse(CHOOSE i \in 1..n : FillKey(i) = k),
                  FillPayload, 0)]

PrefilledIndex(n) ==
    IF n = 0 THEN Null
    ELSE [kind |-> "index", keys |-> [i \in 1..n |-> FillKey(i)], totalSize |-> 0,
          lastUpdated |-> 0]

\* what the direct client passes to put and get
CacheInputs ==
    { <<"mod_forum_get_discussion_posts", ParamsPost1>>,
      <<"mod_forum_get_discussion_posts", ParamsPost2>>,
      <<FILL_FUNCTION, ParamsCourse(1)>> }

\* the services have just been constructed over a store that holds n entries
InitOver(n) ==
    /\ siteUrl = ""
    /\ token = ""
    /\ navOnline \in BOOLEAN
    /\ onlineSignal = navOnline
    /\ events = <<>>
    /\ now = 0
    /\ store = PrefilledStore(n)
    /\ index = PrefilledIndex(n)
    /\ calls = [c \in CallIds |-> IdleCall]
    /\ ops = [o \in OpIds |-> IdleOp]
    /\ putCount = 0
    /\ lastPut = Null
    /\ NothingShown

AllOpsIdle == \A o \in DOMAIN ops : ops[o].pc = "idle"

\* the client calls put when no other cache operation is in flight
StartPut(o, wsFunction, params, data) ==
    /\ AllOpsIdle
    /\ o = FirstIdle(ops, OpIds)
    /\ putCount < MaxSerialPuts
    /\ ops' = [ops EXCEPT ![o] = PutStarted(wsFunction, params, data, now)]
    /\ putCount' = putCount + 1
    /\ lastPut' = [kind |-> "put", key |-> buildKey(wsFunction, params),
                   wsFunction |-> wsFunction, params |-> params, data |-> data,
                   at |-> now,
                   before |-> IndexOrEmpty(index).keys]
    /\ UNCHANGED <<siteUrl, token, navOnline, onlineSignal, events, now, store, index,
                   calls, uiVars>>

\* get, lines 101-102: the key is built, storage.get is awaited
GetStarted(wsFunction, params) ==
    [IdleOp EXCEPT !.pc = "getRead", !.kind = "get",
                   !.wsFunction = wsFunction, !.params = params,
                   !.key = buildKey(wsFunction, params)]

StartGet(o, wsFunction, params) ==
    /\ AllOpsIdle
    /\ o = FirstIdle(ops, OpIds)
    /\ ops' = [ops EXCEPT ![o] = GetStarted(wsFunction, params)]
    /\ UNCHANGED <<siteUrl, token, navOnline, onlineSignal, events, now, store, index,
                   calls, putCount, lastPut, uiVars>>

OpReturned(rec, v) ==
    [IdleOp EXCEPT !.pc = "done", !.kind = rec.kind, !.key = rec.key,
                   !.wsFunction = rec.wsFunction, !.params = rec.params,
                   !.outcome = "returned", !.value = v]

\* get, lines 102-104: the storage read resolves
GetReadResult(rec, entry) ==
    IF entry = Null THEN OpReturned(rec, Null)
    ELSE [rec EXCEPT !.pc = "getCheck", !.entry = entry]

GetRead(o) ==
    /\ NoneSettled
    /\ ops[o].pc = "getRead"
    /\ ops' = [ops EXCEPT ![o] = GetReadResult(ops[o], StorageGet(ops[o].key))]
    /\ UNCHANGED <<siteUrl, token, navOnline, onlineSignal, events, now, store, index,
                   calls, putCount, lastPut, uiVars>>

\* get, lines 106-113
GetCheck(o) ==
    /\ NoneSettled
    /\ ops[o].pc = "getCheck"
    /\ ops' = [ops EXCEPT ![o] =
                  OpReturned(ops[o], GetResult(ops[o].entry, onlineSignal, now))]
    /\ UNCHANGED <<siteUrl, token, navOnline, onlineSignal, events, now, store, index,
                   calls, putCount, lastPut, uiVars>>

\* puts and gets on a store that starts empty; the removal steps of
\* evictIfNeeded are left out as under Spec (CacheBelowCapacity)
CacheStep(o) ==
    \/ \E in \in CacheInputs, data \in Payloads : StartPut(o, in[1], in[2], data)
    \/ \E in \in CacheInputs : StartGet(o, in[1], in[2])
    \/ PutSet(o)
    \/ PutIndexRead(o)
    \/ PutIndexWrite(o)
    \/ PutEvictRead(o)
    \/ GetRead(o)
    \/ GetCheck(o)
    \/ ReleaseOp(o)

NextCache ==
    \/ \E o \in OpIds : CacheStep(o)
    \/ \E d \in TickSteps : Tick(d)
    \/ ConnectivityChanges
    \/ DispatchEvent

SpecCache == InitOver(0) /\ [][NextCache]_vars

\* no put of SpecCache ever finds the index above capacity
CacheBelowCapacity == BelowCapacity

\* puts on a store that an earlier run of the program has left one entry
\* short of capacity
LruStep(o) ==
    \/ \E in \in CacheInputs, data \in Payloads : StartPut(o, in[1], in[2], data)
    \/ PutSet(o)
    \/ PutIndexRead(o)
    \/ PutIndexWrite(o)
    \/ PutEvictRead(o)
    \/ \E key \in ops[o].toRemove : PutEvictRemove(o, key)
    \/ PutEvictWrite(o)
    \/ ReleaseOp(o)

NextLru ==
    \/ \E o \in OpIds : LruStep(o)
    \/ \E d \in TickSteps : Tick(d)

SpecLru == InitOver(MAX_CACHE_ENTRIES - 1) /\ [][NextLru]_vars

(***************************************************************************)
(* Claims about the gateway (checked under Spec)                           *)
(***************************************************************************)
Settled(c) == calls[c].pc = "done"

HasEntry(key) == key \in DOMAIN store

\* the age of the entry exceeds its TTL at time t
OlderThanTtl(entry, t) == t - entry.timestamp > entry.ttl

\* C1: a call whose request was answered by a well-formed body carrying the
\* error envelope fails; it does not return a cached payload in place of the
\* error and it does not write a cache entry.
C1_RemoteErrorNotMasked ==
    \A c \in CallIds :
        (Settled(c) /\ calls[c].resp = "envelope") =>
            /\ calls[c].outcome = "threw"
            /\ calls[c].via # "staleFallback"
            /\ ~calls[c].wrote

\* C2: when the request of an online call fails at transport level (fetch
\* rejects or the HTTP status is not OK) and the stale read itself succeeds:
\* if the store holds any entry for the key, expired or not, the call returns
\* that entry's payload; if it holds none, the call fails with the transport
\* error that fetchFromNetwork threw.
C2_TransportFailureFallsBack ==
    [][\A c \in CallIds :
        ( /\ calls[c].pc = "staleRead"
          /\ calls[c].resp = "transport"
          /\ calls'[c].pc # "staleRead"
          /\ calls'[c].value # STORE_FAILURE )
        => /\ calls'[c].pc = "done"
           /\ calls[c].err \in { Error("TypeError: Failed to fetch"), Error("HTTP status") }
           /\ IF HasEntry(CallKey(c))
                 THEN /\ calls'[c].outcome = "returned"
                      /\ calls'[c].value = store[CallKey(c)].data
                 ELSE /\ calls'[c].outcome = "threw"
                      /\ calls'[c].value = calls[c].err
    ]_vars

\* C2 witness: a call whose request failed at transport level has returned
\* the payload of an entry that is older than its TTL.
C2_Witness ==
    \E c \in CallIds :
        /\ Settled(c) /\ calls[c].resp = "transport"
        /\ calls[c].outcome = "returned" /\ calls[c].via = "staleFallback"
        /\ HasEntry(CallKey(c))
        /\ calls[c].value = store[CallKey(c)].data
        /\ OlderThanTtl(store[CallKey(c)], now)

\* C3: a configured call that finds navigator.onLine false issues no network
\* request; when its cache read succeeds it returns the payload of the entry
\* the store holds for the key, whatever its age, and fails with the
\* offline-no-data error when the store holds none.
C3_OfflineServesAnyAge ==
    [][\A c \in CallIds :
        /\ ( /\ calls[c].pc = "idle" /\ calls'[c].pc # "idle"
             /\ siteUrl # "" /\ token # "" /\ ~navOnline )
           => (calls'[c].pc = "offlineRead" /\ ~calls'[c].net)
        /\ ( /\ calls[c].pc = "offlineRead" /\ calls'[c].pc # "offlineRead"
             /\ calls'[c].value # STORE_FAILURE )
           => /\ calls'[c].pc = "done"
              /\ ~calls'[c].net /\ ~calls'[c].wrote
              /\ IF HasEntry(CallKey(c))
                    THEN /\ calls'[c].outcome = "returned"
                         /\ calls'[c].value = store[CallKey(c)].data
                    ELSE /\ calls'[c].outcome = "threw"
                         /\ calls'[c].value = OFFLINE_NO_DATA
    ]_vars

\* C3 witness: an offline call has returned, without a request, the payload
\* of an entry older than its TTL.
C3_Witness ==
    \E c \in CallIds :
        /\ Settled(c) /\ calls[c].via = "offlineCache" /\ ~calls[c].net
        /\ calls[c].outcome = "returned"
        /\ HasEntry(CallKey(c))
        /\ calls[c].value = store[CallKey(c)].data
        /\ OlderThanTtl(store[CallKey(c)], now)

\* C4: an online call without the bypass flag returns a cached payload
\* without a request only if the entry it read is no older than its TTL at
\* that moment; with no entry, or with an entry older than its TTL, it issues
\* the request.
C4_FreshHitOnly ==
    [][\A c \in CallIds :
        /\ ( /\ calls[c].pc = "freshCheck" /\ calls'[c].pc = "done" )
           => ~OlderThanTtl(calls[c].entry, now)
        /\ ( /\ calls[c].pc = "freshCheck" /\ OlderThanTtl(calls[c].entry, now)
             /\ calls'[c].pc # "freshCheck" )
           => (calls'[c].pc = "fetch" /\ calls'[c].net)
    ]_vars

\* C5: an online call with the bypass flag issues the request without reading
\* the cache, also when a fresh entry exists; on success its response is
\* handed to put under the call's key with the current time, put stores it,
\* and a later call without the flag that reads that entry within its TTL
\* returns that response without a request.
C5_BypassFetchesAndCaches ==
    [][/\ \A c \in CallIds :
            /\ ( /\ calls[c].pc = "idle" /\ calls'[c].pc # "idle"
                 /\ siteUrl # "" /\ token # "" /\ navOnline /\ calls'[c].skipCache )
               => (calls'[c].pc = "fetch" /\ calls'[c].net /\ ~calls'[c].read)
            /\ ( /\ calls[c].pc = "fetch" /\ calls[c].skipCache
                 /\ calls'[c].resp = "data" )
               => \E o \in OpIds :
                    /\ ops[o].pc = "idle" /\ ops'[o].pc = "set"
                    /\ ops'[o].key = CallKey(c)
                    /\ ops'[o].entry.data = calls'[c].value
                    /\ ops'[o].entry.timestamp = now
                    /\ ops'[o].entry.ttl = TtlFor(calls[c].wsFunction)
            /\ ( /\ calls[c].pc = "freshRead" /\ calls'[c].pc # "freshRead"
                 /\ HasEntry(CallKey(c)) /\ calls'[c].value # STORE_FAILURE )
               => (calls'[c].pc = "freshCheck" /\ calls'[c].entry = store[CallKey(c)])
            /\ ( /\ calls[c].pc = "freshCheck" /\ calls'[c].pc # "freshCheck"
                 /\ ~OlderThanTtl(calls[c].entry, now) )
               => /\ calls'[c].pc = "done" /\ calls'[c].outcome = "returned"
                  /\ calls'[c].value = calls[c].entry.data
                  /\ ~calls'[c].net
       /\ \A o \in OpIds :
            (ops[o].pc = "set" /\ ops'[o].pc = "idxRead")
               => (HasEntry(ops[o].key)' /\ store'[ops[o].key] = ops[o].entry)
    ]_vars

\* C5 witness: a bypassed call has returned the network's payload while the
\* store held a different payload for the key that was still within its TTL.
C5_Witness ==
    \E c \in CallIds :
        /\ Settled(c) /\ calls[c].skipCache /\ calls[c].via = "network"
        /\ calls[c].net /\ calls[c].wrote
        /\ HasEntry(CallKey(c))
        /\ ~OlderThanTtl(store[CallKey(c)], now)
        /\ store[CallKey(c)].data # calls[c].value

\* C6: a call made while the endpoint or the token is empty fails at once
\* with the not-configured error; it invokes no cache read, no put and no
\* request, and leaves the store and the index as they are, online or offline.
C6_UnconfiguredFailsAtOnce ==
    [][\A c \in CallIds :
        ( /\ calls[c].pc = "idle" /\ calls'[c].pc # "idle"
          /\ (siteUrl = "" \/ token = "") )
        => /\ calls'[c].pc = "done"
           /\ calls'[c].outcome = "threw" /\ calls'[c].value = NOT_CONFIGURED
           /\ ~calls'[c].read /\ ~calls'[c].net /\ ~calls'[c].wrote
           /\ UNCHANGED <<store, index, ops>>
    ]_vars

\* C6 witness: after a logout a call has failed as not configured while the
\* device was offline and the store still held an entry for its key.
C6_Witness ==
    \E c \in CallIds :
        /\ Settled(c) /\ calls[c].value = NOT_CONFIGURED
        /\ siteUrl = "" /\ token = ""
        /\ ~navOnline
        /\ HasEntry(CallKey(c))

\* C7: when the request succeeds the call returns the response in the same
\* step that hands it to put: the write has not happened yet, and no later
\* step of a put, failing or not, changes a call.
C7_WriteThroughNotAwaited ==
    [][/\ \A c \in CallIds :
            (calls[c].pc = "fetch" /\ calls'[c].resp = "data")
               => /\ calls'[c].pc = "done" /\ calls'[c].outcome = "returned"
                  /\ calls'[c].value \in Payloads
                  /\ calls'[c].wrote
                  /\ store' = store /\ index' = index
       /\ \A o \in OpIds :
            (ops[o].kind = "put" /\ ops'[o] # ops[o]) => calls' = calls
    ]_vars

\* C7 witness: a call has returned the network's payload while the write of
\* that payload is still outstanding.
C7_Witness ==
    \E c \in CallIds, o \in OpIds :
        /\ Settled(c) /\ calls[c].via = "network" /\ calls[c].outcome = "returned"
        /\ ops[o].pc = "set" /\ ops[o].key = CallKey(c)
        /\ ops[o].entry.data = calls[c].value
        /\ (HasEntry(CallKey(c)) => store[CallKey(c)] # ops[o].entry)

(***************************************************************************)
(* Claims about the cache engine (C8, C9 under SpecCache, C10 under SpecLru)*)
(***************************************************************************)
\* a get completes at this step
GetCompletes(o) ==
    /\ ops[o].kind = "get"
    /\ ops[o].pc \in {"getRead", "getCheck"}
    /\ ops'[o].pc = "done"

\* C8: with the cache online, a get that follows a put for the same key
\* returns, without throwing, exactly the payload written while the time
\* since the put does not exceed the TTL of the function, and the absent
\* value once it does.
C8_GetAfterPutHonoursTtl ==
    [][\A o \in OpIds :
        ( /\ GetCompletes(o)
          /\ onlineSignal
          /\ lastPut # Null
          /\ lastPut.key = ops[o].key )
        => /\ ops'[o].outcome = "returned"
           /\ ops'[o].value = IF now - lastPut.at <= TtlFor(lastPut.wsFunction)
                              THEN lastPut.data ELSE Null
    ]_vars

\* C8 witness: online, a get for the key of the last put has returned absent
\* because the put is older than the TTL.
C8_Witness ==
    \E o \in OpIds :
        /\ ops[o].pc = "done" /\ ops[o].kind = "get"
        /\ onlineSignal
        /\ lastPut # Null
        /\ lastPut.key = ops[o].key
        /\ HasEntry(ops[o].key)
        /\ now - lastPut.at > TtlFor(lastPut.wsFunction)
        /\ ops[o].outcome = "returned" /\ ops[o].value = Null

\* C9: while the cache's connectivity signal is offline, get returns the
\* payload of the entry the store holds for the key, however old, and absent
\* only when the store holds none.
C9_OfflineGetIgnoresTtl ==
    [][\A o \in OpIds :
        (GetCompletes(o) /\ ~onlineSignal)
        => /\ ops'[o].outcome = "returned"
           /\ ops'[o].value = IF HasEntry(ops[o].key)
                              THEN store[ops[o].key].data ELSE Null
    ]_vars

\* C9 witness: with the signal offline a get has returned the payload of an
\* entry older than its TTL.
C9_Witness ==
    \E o \in OpIds :
        /\ ops[o].pc = "done" /\ ops[o].kind = "get"
        /\ ~onlineSignal
        /\ HasEntry(ops[o].key)
        /\ OlderThanTtl(store[ops[o].key], now)
        /\ ops[o].value = store[ops[o].key].data

IndexKeys == IF index = Null THEN <<>> ELSE index.keys

KeySet(keys) == { keys[i] : i \in 1..Len(keys) }

\* no put is in flight
NoPutInFlight == \A o \in OpIds : ops[o].kind = "put" => ops[o].pc = "done"

\* the recency order after a put of key: the other keys in their order, then key
RecencyAfterPut(keys, key) == SelectSeq(keys, LAMBDA k : k # key) \o <<key>>

\* the MAX_CACHE_ENTRIES most recent keys of a recency order
MostRecent(keys) ==
    IF Len(keys) <= MAX_CACHE_ENTRIES THEN keys
    ELSE [i \in 1..MAX_CACHE_ENTRIES |-> keys[Len(keys) - MAX_CACHE_ENTRIES + i]]

\* C10: between non-overlapping puts the index holds at most 200 keys, each
\* once, and the store holds an entry for exactly those keys; after a put the
\* index is the recency order the put found, with the put's key moved to the
\* tail and the keys in excess of 200 taken off the head.
C10_LruBound ==
    NoPutInFlight =>
        /\ Len(IndexKeys) <= MAX_CACHE_ENTRIES
        /\ Cardinality(KeySet(IndexKeys)) = Len(IndexKeys)
        /\ DOMAIN store = KeySet(IndexKeys)
        /\ lastPut # Null =>
              /\ IndexKeys = MostRecent(RecencyAfterPut(lastPut.before, lastPut.key))
              /\ store[lastPut.key].data = lastPut.data

\* C10 witness: a put has found the index full and evicted the head key,
\* course 2, while course 1, re-put earlier, has stayed.
C10_Witness ==
    /\ NoPutInFlight
    /\ lastPut # Null
    /\ Len(lastPut.before) = MAX_CACHE_ENTRIES
    /\ lastPut.key \notin KeySet(lastPut.before)
    /\ Len(IndexKeys) = MAX_CACHE_ENTRIES
    /\ HasEntry(FillKey(1))
    /\ ~HasEntry(FillKey(2))

(***************************************************************************)
(* The cache engine under call sites that build the same parameter object  *)
(* in different property orders.                                           *)
(***************************************************************************)
\* the objects with the properties of params in every insertion order
Reorderings(params) ==
    { [i \in 1..Len(params) |-> params[f[i]]] : f \in Permutations(1..Len(params)) }

\* what the call sites pass to put and get
KeyInputs ==
    { <<"mod_forum_get_discussion_posts", p>> :
        p \in Reorderings(ParamsPosts(1)) \cup Reorderings(ParamsPosts(2)) }

KeyStep(o) ==
    \/ \E in \in KeyInputs, data \in Payloads : StartPut(o, in[1], in[2], data)
    \/ \E in \in KeyInputs : StartGet(o, in[1], in[2])
    \/ PutSet(o)
    \/ PutIndexRead(o)
    \/ PutIndexWrite(o)
    \/ PutEvictRead(o)
    \/ GetRead(o)
    \/ GetCheck(o)
    \/ ReleaseOp(o)

NextKey == \E o \in OpIds : KeyStep(o)

SpecKey == InitOver(0) /\ [][NextKey]_vars

\* two parameter objects hold the same key/value pairs
SamePairs(p, q) ==
    { p[i] : i \in 1..Len(p) } = { q[i] : i \in 1..Len(q) }

\* C11: for one function name, two parameter objects that hold the same
\* key/value pairs in different insertion order give the same cache key, so
\* a get under one ordering returns the payload put under the other.
C11_KeyIgnoresInsertionOrder ==
    [][\A o \in OpIds :
        ( /\ GetCompletes(o)
          /\ lastPut # Null
          /\ ops[o].wsFunction = lastPut.wsFunction
          /\ SamePairs(ops[o].params, lastPut.params) )
        => /\ ops[o].key = lastPut.key
           /\ buildKey(ops[o].wsFunction, ops[o].params)
                = buildKey(lastPut.wsFunction, lastPut.params)
           /\ ops'[o].outcome = "returned"
           /\ ops'[o].value = lastPut.data
    ]_vars

\* C11 witness: a get whose parameter object lists the properties of the last
\* put in another order has returned the payload of that put.
C11_Witness ==
    \E o \in OpIds :
        /\ ops[o].pc = "done" /\ ops[o].kind = "get"
        /\ lastPut # Null
        /\ ops[o].wsFunction = lastPut.wsFunction
        /\ SamePairs(ops[o].params, lastPut.params)
        /\ ops[o].params # lastPut.params
        /\ ops[o].value = lastPut.data

(***************************************************************************)
(* The cache engine under a client that lets puts overlap, then clears the *)
(* cache and reads it.                                                     *)
(***************************************************************************)
OverlapIds == 1..MaxOverlap

\* a number a cache operation returns
Number(n) == [kind |-> "number", n |-> n]

ClearInputs ==
    { <<"mod_forum_get_discussion_posts", ParamsPost1>>,
      <<"mod_forum_get_discussion_posts", ParamsPost2>> }

\* an earlier run has left nothing, or an index that names an entry the
\* store no longer holds
LeftBehind ==
    { [store |-> << >>, index |-> Null],
      [store |-> PrefilledStore(1), index |-> PrefilledIndex(2)] }

InitClear ==
    /\ siteUrl = ""
    /\ token = ""
    /\ navOnline \in BOOLEAN
    /\ onlineSignal = navOnline
    /\ events = <<>>
    /\ now = 0
    /\ \E left \in LeftBehind : store = left.store /\ index = left.index
    /\ calls = [c \in CallIds |-> IdleCall]
    /\ ops = [o \in OverlapIds |-> IdleOp]
    /\ putCount = 0
    /\ lastPut = Null
    /\ NothingShown

ClearAllIssued == lastPut # Null /\ lastPut.kind = "clearAll"

\* the client calls put while other puts may be in flight
StartPutMeanwhile(o, wsFunction, params, data) ==
    /\ NoneSettled
    /\ ~ClearAllIssued
    /\ ops[o].pc = "idle"
    /\ o = FirstIdle(ops, DOMAIN ops)
    /\ putCount < MaxSerialPuts
    /\ ops' = [ops EXCEPT ![o] = PutStarted(wsFunction, params, data, now)]
    /\ putCount' = putCount + 1
    /\ lastPut' = [kind |-> "put", key |-> buildKey(wsFunction, params),
                   wsFunction |-> wsFunction, params |-> params, data |-> data,
                   at |-> now, before |-> IndexOrEmpty(index).keys]
    /\ UNCHANGED <<siteUrl, token, navOnline, onlineSignal, events, now, store, index,
                   calls, uiVars>>

\* clearAll, lines 124-125: the index read is awaited
StartClearAll(o) ==
    /\ AllOpsIdle
    /\ ~ClearAllIssued
    /\ o = FirstIdle(ops, DOMAIN ops)
    /\ ops' = [ops EXCEPT ![o] = [IdleOp EXCEPT !.pc = "clearRead", !.kind = "clearAll"]]
    /\ lastPut' = [kind |-> "clearAll", at |-> now]
    /\ UNCHANGED <<siteUrl, token, navOnline, onlineSignal, events, now, store, index,
                   calls, putCount, uiVars>>

\* lines 125-127: the index read resolves; one removal per indexed key is issued
ClearReadResult(rec, idx) ==
    IF idx # Null /\ idx.keys # <<>>
        THEN [rec EXCEPT !.pc = "clearRemove",
                         !.toRemove = { idx.keys[i] : i \in 1..Len(idx.keys) }]
        ELSE [rec EXCEPT !.pc = "clearIndex"]

ClearRead(o) ==
    /\ NoneSettled
    /\ ops[o].pc = "clearRead"
    /\ ops' = [ops EXCEPT ![o] = ClearReadResult(ops[o], index)]
    /\ UNCHANGED <<siteUrl, token, navOnline, onlineSignal, events, now, store, index,
                   calls, putCount, lastPut, uiVars>>

\* line 127: one storage.remove(key) of the Promise.all resolves
ClearRemoved(rec, key) ==
    [rec EXCEPT !.toRemove = @ \ {key},
                !.pc = IF rec.toRemove = {key} THEN "clearIndex" ELSE "clearRemove"]

ClearRemove(o, key) ==
    /\ NoneSettled
    /\ ops[o].pc = "clearRemove"
    /\ key \in ops[o].toRemove
    /\ store' = StorageRemove(key)
    /\ ops' = [ops EXCEPT ![o] = ClearRemoved(ops[o], key)]
    /\ UNCHANGED <<siteUrl, token, navOnline, onlineSignal, events, now, index,
                   calls, putCount, lastPut, uiVars>>

\* line 129: await this.storage.remove(CACHE_INDEX_KEY)
ClearIndex(o) ==
    /\ NoneSettled
    /\ ops[o].pc = "clearIndex"
    /\ index' = Null
    /\ ops' = [ops EXCEPT ![o] = OpDone(ops[o])]
    /\ UNCHANGED <<siteUrl, token, navOnline, onlineSignal, events, now, store,
                   calls, putCount, lastPut, uiVars>>

\* getStale, lines 118-119: the key is built, storage.get is awaited
GetStaleStarted(wsFunction, params) ==
    [IdleOp EXCEPT !.pc = "staleRead", !.kind = "getStale",
                   !.wsFunction = wsFunction, !.params = params,
                   !.key = buildKey(wsFunction, params)]

StartGetStale(o, wsFunction, params) ==
    /\ AllOpsIdle
    /\ o = FirstIdle(ops, DOMAIN ops)
    /\ ops' = [ops EXCEPT ![o] = GetStaleStarted(wsFunction, params)]
    /\ UNCHANGED <<siteUrl, token, navOnline, onlineSignal, events, now, store, index,
                   calls, putCount, lastPut, uiVars>>

\* getStale, lines 119-120
GetStaleRead(o) ==
    /\ NoneSettled
    /\ ops[o].pc = "staleRead"
    /\ ops' = [ops EXCEPT ![o] =
                  OpReturned(ops[o], GetStaleResult(StorageGet(ops[o].key)))]
    /\ UNCHANGED <<siteUrl, token, navOnline, onlineSignal, events, now, store, index,
                   calls, putCount, lastPut, uiVars>>

\* getCacheSize, line 134: the index read is awaited
StartGetCacheSize(o) ==
    /\ AllOpsIdle
    /\ o = FirstIdle(ops, DOMAIN ops)
    /\ ops' = [ops EXCEPT ![o] = [IdleOp EXCEPT !.pc = "sizeRead", !.kind = "getCacheSize"]]
    /\ UNCHANGED <<siteUrl, token, navOnline, onlineSignal, events, now, store, index,
                   calls, putCount, lastPut, uiVars>>

\* getCacheSize, line 135: index?.keys.length ?? 0
CacheSize(idx) == IF idx = Null THEN 0 ELSE Len(idx.keys)

SizeRead(o) ==
    /\ NoneSettled
    /\ ops[o].pc = "sizeRead"
    /\ ops' = [ops EXCEPT ![o] =
                  OpReturned(ops[o], Number(CacheSize(index)))]
    /\ UNCHANGED <<siteUrl, token, navOnline, onlineSignal, events, now, store, index,
                   calls, putCount, lastPut, uiVars>>

\* the removal steps of evictIfNeeded are left out as under Spec
\* (ClearBelowCapacity)
ClearStep(o) ==
    \/ \E in \in ClearInputs, data \in Payloads : StartPutMeanwhile(o, in[1], in[2], data)
    \/ PutSet(o)
    \/ PutIndexRead(o)
    \/ PutIndexWrite(o)
    \/ PutEvictRead(o)
    \/ StartClearAll(o)
    \/ ClearRead(o)
    \/ \E key \in ops[o].toRemove : ClearRemove(o, key)
    \/ ClearIndex(o)
    \/ \E in \in ClearInputs : StartGet(o, in[1], in[2])
    \/ GetRead(o)
    \/ GetCheck(o)
    \/ \E in \in ClearInputs : StartGetStale(o, in[1], in[2])
    \/ GetStaleRead(o)
    \/ StartGetCacheSize(o)
    \/ SizeRead(o)
    \/ ReleaseOp(o)

NextClear == \E o \in OverlapIds : ClearStep(o)

SpecClear == InitClear /\ [][NextClear]_vars

\* no put of SpecClear ever finds the index above capacity
ClearBelowCapacity ==
    /\ ~OverCapacity(index)
    /\ \A o \in OverlapIds : ops[o].pc \notin {"evictRemove", "evictWrite"}

\* clearAll has been issued and has completed
ClearAllCompleted ==
    /\ ClearAllIssued
    /\ \A o \in DOMAIN ops : ops[o].kind = "clearAll" => ops[o].pc = "done"

\* a get, getStale or getCacheSize completes at this step
ReadCompletes(o) ==
    /\ ops[o].kind \in {"get", "getStale", "getCacheSize"}
    /\ ops[o].pc \notin {"idle", "done"}
    /\ ops'[o].pc = "done"

\* C12: once clearAll has completed, every get and getStale returns absent
\* and getCacheSize returns 0, whatever puts (overlapping or not) came before
\* and also when the index named entries the store no longer held.
C12_ClearAllLeavesNothing ==
    [][\A o \in DOMAIN ops :
        (ClearAllCompleted /\ ReadCompletes(o))
        => /\ ops'[o].outcome = "returned"
           /\ ops'[o].value = IF ops[o].kind = "getCacheSize" THEN Number(0) ELSE Null
    ]_vars

(***************************************************************************)
(* C13  A rejected store read is not a miss                                *)
(***************************************************************************)
\* C13: when the store rejects the read that get or getStale awaits, the
\* operation rejects with the store's failure, and the gateway call awaiting
\* it rejects with that failure too: it neither issues the request (as after
\* a miss of get) nor reports "offline, no data" or the network error (as
\* after a miss of getStale).
C13_StoreReadFailurePropagates ==
    \A c \in CallIds :
        calls[c].storeFailed
        => /\ calls[c].pc = "done"
           /\ calls[c].outcome = "threw"
           /\ calls[c].value = STORE_FAILURE

\* a call whose cache read was rejected while the entry it asked for is stored
C13_Witness ==
    \E c \in CallIds :
        /\ calls[c].storeFailed
        /\ calls[c].outcome = "threw"
        /\ buildKey(calls[c].wsFunction, calls[c].params) \in DOMAIN store

(***************************************************************************)
(* MoodleApiService.getFileUrl                                             *)
(*                                                                         *)
(* A URL string is held as the sequence of its lexemes (scheme, userinfo,  *)
(* host, port, path, "?", query, ...); Text gives the string.  new URL()   *)
(* is modelled on the lexemes the way the URL parser reads the string:     *)
(* scheme first, then the authority with an optional user part and port.   *)
(***************************************************************************)
\* times a feature service passes the same field through getFileUrl
MaxRewrites == 2

RECURSIVE Text(_)
Text(u) == IF u = <<>> THEN "" ELSE Head(u) \o Text(Tail(u))

Includes(u, lexeme) == \E i \in 1..Len(u) : u[i] = lexeme

SpecialSchemes == {"https://", "HTTPS://", "http://"}
UserParts == {"moodle.example@"}
Hosts == {"moodle.example", "MOODLE.EXAMPLE", "cdn.example"}
Ports == {":443", ":8443"}

\* scheme and host are lower-cased by the parser
LowerCase(lexeme) ==
    CASE lexeme = "HTTPS://" -> "https://"
      [] lexeme = "MOODLE.EXAMPLE" -> "moodle.example"
      [] OTHER -> lexeme

\* the port the parser drops from the origin of a scheme
DefaultPort(scheme) == IF scheme = "https://" THEN ":443" ELSE ":80"

ParseFailure == [ok |-> FALSE, origin |-> ""]

\* new URL(text): throws (ok = FALSE) for a string without a scheme or
\* without a host; .origin is scheme, host and non-default port, and "null"
\* for a data: URL
ParseUrl(u) ==
    IF u = <<>> THEN ParseFailure
    ELSE IF u[1] = "data:" THEN [ok |-> TRUE, origin |-> "null"]
    ELSE IF u[1] \notin SpecialSchemes THEN ParseFailure
    ELSE LET h == IF Len(u) >= 2 /\ u[2] \in UserParts THEN 3 ELSE 2
         IN  IF Len(u) < h \/ u[h] \notin Hosts THEN ParseFailure
             ELSE LET scheme == LowerCase(u[1])
                      port == IF Len(u) > h /\ u[h + 1] \in Ports THEN u[h + 1] ELSE ""
                  IN  [ok |-> TRUE,
                       origin |-> scheme \o LowerCase(u[h])
                                  \o (IF port = DefaultPort(scheme) THEN "" ELSE port)]

\* the site URLs configure() is given: AuthService.normaliseSiteUrl keeps
\* origin and path
UrlSites == SiteUrls \cup {"https://moodle.example:8443/lms"}

SiteSpellings ==
    { <<>>, <<"https://", "moodle.example">>,
      <<"https://", "moodle.example", ":8443", "/lms">> }

\* the lexemes of a configured site URL
Lexemes(s) == CHOOSE u \in SiteSpellings : Text(u) = s

\* lines 128-134: both URLs parse and the origins are the same string
SameOrigin(fileUrl, s) ==
    /\ ParseUrl(fileUrl).ok
    /\ ParseUrl(Lexemes(s)).ok
    /\ ParseUrl(fileUrl).origin = ParseUrl(Lexemes(s)).origin

\* lines 139-140
WithToken(fileUrl, t) ==
    fileUrl \o << (IF Includes(fileUrl, "?") THEN "&" ELSE "?"), "token=", t >>

\* getFileUrl without the comparison of origins
getFileUrl_AnyOrigin(fileUrl, s, t) ==
    IF fileUrl = <<>> THEN <<>>
    ELSE IF ~ParseUrl(fileUrl).ok THEN fileUrl
    ELSE WithToken(fileUrl, t)

\* lines 123-141
getFileUrl(fileUrl, s, t) ==
    IF fileUrl = <<>> THEN <<>>
    ELSE IF ~SameOrigin(fileUrl, s) THEN fileUrl
    ELSE WithToken(fileUrl, t)

\* the file URLs found in web service responses
AssetQueries == { <<>>, <<"?", "rev=1">> }

AssetUrls ==
    { <<sc>> \o us \o <<h>> \o po \o <<"/pluginfile.php/1/a.png">> \o q :
        sc \in SpecialSchemes, us \in {<<>>} \cup {<<x>> : x \in UserParts},
        h \in Hosts, po \in {<<>>} \cup {<<x>> : x \in Ports}, q \in AssetQueries }
    \cup { <<>>, <<"/pluginfile.php/1/a.png">>, <<"pluginfile.php", "?", "rev=1">>,
           <<"https://">>, <<"data:", "image/png;base64,AAAA">> }

\* forum.service.ts line 213 and the like: a field of a response object is
\* replaced by its getFileUrl; asset is that field (raw: as received)
ShowAsset(u) ==
    /\ asset = Null
    /\ asset' = [raw |-> u, url |-> getFileUrl(u, siteUrl, token),
                 site |-> siteUrl, token |-> token, rewrites |-> 1]
    /\ UNCHANGED <<cacheVars, engineVars>>

\* the same object is mapped again
RewriteAsset ==
    /\ asset # Null
    /\ asset.rewrites < MaxRewrites
    /\ asset' = [asset EXCEPT !.url = getFileUrl(asset.url, siteUrl, token),
                              !.site = siteUrl, !.token = token,
                              !.rewrites = asset.rewrites + 1]
    /\ UNCHANGED <<cacheVars, engineVars>>

\* the view showing the field is closed
DropAsset ==
    /\ asset # Null
    /\ asset' = Null
    /\ UNCHANGED <<cacheVars, engineVars>>

NextUrl ==
    \/ \E s \in UrlSites \cup {""}, t \in Tokens \cup {""} : Configure(s, t)
    \/ Logout
    \/ \E u \in AssetUrls : ShowAsset(u)
    \/ RewriteAsset
    \/ DropAsset

SpecUrl == InitOver(0) /\ [][NextUrl]_vars

\* a step that passes a URL through getFileUrl, and the URL passed in
AssetRewritten == asset' # Null /\ asset' # asset

UrlBefore == IF asset = Null THEN asset'.raw ELSE asset.url

(***************************************************************************)
(* C14  The token goes to the configured origin only                       *)
(***************************************************************************)
\* C14: getFileUrl returns a URL of another origin than the configured
\* endpoint's, and a URL that does not parse, exactly as given; what it
\* returns differs from what it was given only by the token parameter
\* appended to a URL of the endpoint's origin.
C14_TokenOnlyToSiteOrigin ==
    [][AssetRewritten
        => /\ ~SameOrigin(UrlBefore, siteUrl) => Text(asset'.url) = Text(UrlBefore)
           /\ Text(asset'.url) # Text(UrlBefore)
                => /\ SameOrigin(UrlBefore, siteUrl)
                   /\ SameOrigin(asset'.url, siteUrl)
                   /\ \/ Text(asset'.url) = Text(UrlBefore) \o "?token=" \o token
                      \/ Text(asset'.url) = Text(UrlBefore) \o "&token=" \o token
    ]_vars

\* a URL naming the site's host only in its user part was left as it is, and
\* so was a relative URL, while a URL of the site's origin got the token
C14_Witness ==
    /\ asset # Null
    /\ asset.rewrites = 1
    /\ asset.site # ""
    /\ asset.token # ""
    /\ \/ /\ Includes(asset.raw, "moodle.example@")
          /\ Includes(asset.raw, "cdn.example")
          /\ asset.url = asset.raw
       \/ /\ asset.raw = <<"/pluginfile.php/1/a.png">>
          /\ asset.url = asset.raw

(***************************************************************************)
(* C15  getFileUrl applied twice                                           *)
(***************************************************************************)
\* C15: passing the result of getFileUrl through getFileUrl again, under the
\* same configuration, gives the same URL: a URL that carries the token gets
\* no second token parameter.
C15_GetFileUrlIdempotent ==
    [][(/\ asset # Null
        /\ asset' # Null
        /\ asset'.rewrites = asset.rewrites + 1
        /\ asset.site = siteUrl
        /\ asset.token = token)
        => Text(asset'.url) = Text(asset.url)
    ]_vars

(***************************************************************************)
(* QuizQuestionEngine                                                      *)
(*                                                                         *)
(* dom holds, per question container, what the engine reads and writes of  *)
(* the markup: the hidden inputs' values, the drop targets, the drag       *)
(* homes, the draggable elements the engine cloned (with the classes and   *)
(* attributes it sets on them) and the click listeners it attached (each   *)
(* listener closes over one state object, named by its id).  A handler is  *)
(* an operator from a world [states, dom] to the world it leaves.          *)
(***************************************************************************)
World(st, d) == [states |-> st, dom |-> d]

\* state.selected = null; an element is named by its place among the
\* container's draggables
NoDrag == 0

\* Number(input.value) for the values a hidden input carries; not a number: -1
NumberOf(value) ==
    CASE value = "" -> 0
      [] value = "0" -> 0
      [] value = "1" -> 1
      [] value = "2" -> 2
      [] value = "3" -> 3
      [] OTHER -> -1

\* where a draggable is drawn: over its home, or over slot p (p >= 1)
AtHome == 0
NotDrawn == -1

(***************************************************************************)
(* Word bank (ddwtos)                                                      *)
(***************************************************************************)
\* draggables that listen to clicks in review mode as well
RECURSIVE WordClones_Listening(_, _, _, _, _)
WordClones_Listening(home, count, nextDragNo, owner, i) ==
    IF i > count THEN <<>>
    ELSE << [no |-> nextDragNo, group |-> home.group, choice |-> home.choice,
             selected |-> FALSE, unplaced |-> FALSE, at |-> NotDrawn,
             owner |-> 1] >>
         \o WordClones_Listening(home, count, nextDragNo + 1, owner, i + 1)

\* the draggables ddwtosCloneDragItems makes of one home, lines 176-202
RECURSIVE WordClones(_, _, _, _, _)
WordClones(home, count, nextDragNo, owner, i) ==
    IF i > count THEN <<>>
    ELSE << [no |-> nextDragNo, group |-> home.group, choice |-> home.choice,
             selected |-> FALSE, unplaced |-> FALSE, at |-> NotDrawn,
             owner |-> owner] >>
         \o WordClones(home, count, nextDragNo + 1, owner, i + 1)

\* span.drop.group<g> in the container
DropsOfGroup(drops, g) == {p \in DOMAIN drops : drops[p] = g}

RECURSIVE WordCloneAll(_, _, _, _, _)
WordCloneAll(homes, drops, nextDragNo, owner, h) ==
    IF h > Len(homes) THEN <<>>
    ELSE LET count == IF homes[h].infinite
                          THEN Cardinality(DropsOfGroup(drops, homes[h].group))
                          ELSE 1
         IN  WordClones(homes[h], count, nextDragNo, owner, 1)
             \o WordCloneAll(homes, drops, nextDragNo + count, owner, h + 1)

\* querySelector: the first element in document order that matches, or none
FirstDrag(drags, Matches(_)) ==
    IF \E i \in DOMAIN drags : Matches(drags[i])
        THEN CHOOSE i \in DOMAIN drags :
                 Matches(drags[i]) /\ \A j \in DOMAIN drags : Matches(drags[j]) => i <= j
        ELSE NoDrag

\* delete state.placed[key] for every key placed in placeNo, lines 239-241
WithoutPlace(placed, placeNo) ==
    [no \in {k \in DOMAIN placed : placed[k] # placeNo} |-> placed[no]]

\* ddwtosPlaceDrag without the removal of the previous placement
ddwtosPlaceDrag_KeepsOccupant(W, s, drag, placeNo) ==
    LET c == W.states[s].container
        d == W.dom[c]
    IN  IF placeNo = 0 THEN W
        ELSE IF drag = NoDrag
            THEN World(W.states, [W.dom EXCEPT ![c].values[placeNo] = "0"])
            ELSE World([W.states EXCEPT ![s].placed =
                            [no \in DOMAIN W.states[s].placed \cup {d.drags[drag].no} |->
                                IF no = d.drags[drag].no THEN placeNo
                                ELSE W.states[s].placed[no]]],
                       [W.dom EXCEPT ![c].values[placeNo] = ToString(d.drags[drag].choice),
                                     ![c].drags[drag].unplaced = FALSE])

\* ddwtosPlaceDrag, lines 225-247; drag NoDrag is null, placeNo 0 a null drop
ddwtosPlaceDrag(W, s, drag, placeNo) ==
    LET c == W.states[s].container
        d == W.dom[c]
        cleared == WithoutPlace(W.states[s].placed, placeNo)
    IN  IF placeNo = 0 THEN W
        ELSE IF drag = NoDrag
            THEN World([W.states EXCEPT ![s].placed = cleared],
                       [W.dom EXCEPT ![c].values[placeNo] = "0"])
            ELSE World([W.states EXCEPT ![s].placed =
                            [no \in DOMAIN cleared \cup {d.drags[drag].no} |->
                                IF no = d.drags[drag].no THEN placeNo ELSE cleared[no]]],
                       [W.dom EXCEPT ![c].values[placeNo] = ToString(d.drags[drag].choice),
                                     ![c].drags[drag].unplaced = FALSE])

\* state.placed[no], undefined read as 0
PlaceOf(placed, no) == IF no \in DOMAIN placed THEN placed[no] ELSE 0

\* ddwtosPositionDrag, lines 283-311
ddwtosPositionDrag(W, s, drag) ==
    LET c == W.states[s].container
        placeNo == PlaceOf(W.states[s].placed, W.dom[c].drags[drag].no)
    IN  IF placeNo = 0
            THEN World(W.states, [W.dom EXCEPT ![c].drags[drag].at = AtHome,
                                               ![c].drags[drag].unplaced = TRUE])
            ELSE World(W.states, [W.dom EXCEPT ![c].drags[drag].at = placeNo,
                                               ![c].drags[drag].unplaced = FALSE])

\* ddwtosPositionAll, lines 278-281
RECURSIVE ddwtosPositionFrom(_, _, _)
ddwtosPositionFrom(W, s, drag) ==
    IF drag > Len(W.dom[W.states[s].container].drags) THEN W
    ELSE ddwtosPositionFrom(ddwtosPositionDrag(W, s, drag), s, drag + 1)

ddwtosPositionAll(W, s) == ddwtosPositionFrom(W, s, 1)

\* ddwtosRemoveDrag, lines 313-318: span.drop.place<undefined> matches nothing
ddwtosRemoveDrag(W, s, drag) ==
    LET c == W.states[s].container
    IN  ddwtosPlaceDrag(W, s, NoDrag, PlaceOf(W.states[s].placed, W.dom[c].drags[drag].no))

\* ddwtosDeselect, lines 326-330
ddwtosDeselect(W, s) ==
    LET c == W.states[s].container
    IN  World([W.states EXCEPT ![s].selected = NoDrag],
              [W.dom EXCEPT ![c].drags =
                  [i \in DOMAIN W.dom[c].drags |-> [W.dom[c].drags[i] EXCEPT !.selected = FALSE]]])

\* ddwtosSelect, lines 320-324
ddwtosSelect(W, s, drag) ==
    LET V == ddwtosDeselect(W, s)
        c == W.states[s].container
    IN  World([V.states EXCEPT ![s].selected = drag],
              [V.dom EXCEPT ![c].drags[drag].selected = TRUE])

\* ddwtosInitialPlace, lines 205-223, from slot placeNo on
RECURSIVE ddwtosInitialFrom(_, _, _)
ddwtosInitialFrom(W, s, placeNo) ==
    LET c == W.states[s].container
        d == W.dom[c]
    IN  IF placeNo > Len(d.values) THEN W
        ELSE LET choiceNo == NumberOf(d.values[placeNo])
                 Free(x) == x.unplaced /\ x.group = d.drops[placeNo] /\ x.choice = choiceNo
             IN  IF choiceNo = 0 \/ choiceNo = -1
                     THEN ddwtosInitialFrom(W, s, placeNo + 1)
                     ELSE ddwtosInitialFrom(
                              ddwtosPlaceDrag(W, s, FirstDrag(d.drags, Free), placeNo),
                              s, placeNo + 1)

ddwtosInitialPlace(W, s) ==
    LET c == W.states[s].container
        V == World([W.states EXCEPT ![s].placed = << >>],
                   [W.dom EXCEPT ![c].drags =
                       [i \in DOMAIN W.dom[c].drags |->
                           [W.dom[c].drags[i] EXCEPT !.unplaced = TRUE]]])
    IN  ddwtosInitialFrom(V, s, 1)

\* the listener of a draggable, lines 194-200
ddwtosDragClicked(W, s, drag) ==
    IF W.dom[W.states[s].container].drags[drag].selected
        THEN ddwtosDeselect(W, s)
        ELSE ddwtosSelect(W, s, drag)

\* the listener of a drop, lines 252-260
ddwtosDropClicked(W, s, placeNo) ==
    LET c == W.states[s].container
        drag == W.states[s].selected
    IN  IF drag = NoDrag THEN W
        ELSE IF W.dom[c].drags[drag].group # W.dom[c].drops[placeNo] THEN W
        ELSE ddwtosPositionDrag(
                 ddwtosDeselect(ddwtosPlaceDrag(W, s, drag, placeNo), s), s, drag)

\* the listener of .answercontainer, lines 264-275
ddwtosHomeClicked(W, s) ==
    LET c == W.states[s].container
        drag == W.states[s].selected
    IN  IF drag = NoDrag THEN W
        ELSE IF W.dom[c].drags[drag].unplaced THEN ddwtosDeselect(W, s)
        ELSE ddwtosPositionDrag(
                 ddwtosDeselect(ddwtosRemoveDrag(W, s, drag), s), s, drag)

\* initDdwtos, lines 117-174, for state object s over container c
initDdwtos(W, s, c, readOnly) ==
    LET d == W.dom[c]
        owner == IF readOnly THEN 0 ELSE s
        state == [type |-> "ddwtos", container |-> c, readOnly |-> readOnly,
                  selected |-> NoDrag, placed |-> << >>,
                  nextDragNo |-> 1 + Len(WordCloneAll(d.homes, d.drops, 1, owner, 1))]
        cloned == [d EXCEPT !.drags = @ \o WordCloneAll(d.homes, d.drops, 1, owner, 1),
                            !.dragsInHome = IF d.hasDrags THEN @ ELSE TRUE,
                            !.hasDrags = TRUE]
        st1 == (s :> state) @@ W.states
        V == ddwtosInitialPlace(World(st1, [W.dom EXCEPT ![c] = cloned]), s)
        U == IF readOnly THEN V
             ELSE World(V.states,
                        [V.dom EXCEPT ![c].dropListeners = Append(@, s),
                                      ![c].homeListeners = Append(@, s)])
    IN  ddwtosPositionAll(U, s)

(***************************************************************************)
(* Image drop (ddimageortext)                                              *)
(*                                                                         *)
(* A drop names its hidden input by the attribute inputid; inputs are      *)
(* keyed by that id (1, 2, ...), and NoInput is the empty attribute.       *)
(***************************************************************************)
NoInput == 0

\* ddImageCloneDrag and ddImageMakeDraggable for the homes from h on, lines
\* 431-456: one instance per home, and for an infinite home one more for
\* every further drop of its group
RECURSIVE ImageClones(_, _, _, _, _)
ImageClones(home, item, count, instanceNo, owner) ==
    IF count = 0 THEN <<>>
    ELSE << [instance |-> instanceNo, item |-> item, group |-> home.group,
             choice |-> home.choice, placed |-> FALSE, beingdragged |-> FALSE,
             inputid |-> NoInput, at |-> NotDrawn, owner |-> owner] >>
         \o ImageClones(home, item, count - 1, instanceNo + 1, owner)

ImageCount(home, drops) ==
    LET n == Cardinality({p \in DOMAIN drops : drops[p].group = home.group})
    IN  IF home.infinite /\ n > 1 THEN n ELSE 1

RECURSIVE ImageCloneAll(_, _, _, _, _)
ImageCloneAll(homes, drops, instanceNo, owner, h) ==
    IF h > Len(homes) THEN <<>>
    ELSE ImageClones(homes[h], h - 1, ImageCount(homes[h], drops), instanceNo, owner)
         \o ImageCloneAll(homes, drops, instanceNo + ImageCount(homes[h], drops), owner,
                          h + 1)

\* document order of the draggables: by home, and behind one home the
\* element inserted last comes first (insertBefore(home.nextSibling))
Before(drags, i, j) ==
    \/ drags[i].item < drags[j].item
    \/ drags[i].item = drags[j].item /\ i > j

FirstInOrder(drags, Matches(_)) ==
    IF \E i \in DOMAIN drags : Matches(drags[i])
        THEN CHOOSE i \in DOMAIN drags :
                 /\ Matches(drags[i])
                 /\ \A j \in DOMAIN drags : Matches(drags[j]) /\ j # i => Before(drags, i, j)
        ELSE NoDrag

\* input?.setAttribute('value', v) on input#<id>: no such input, no effect
SetValue(d, id, v) ==
    IF id \in DOMAIN d.values THEN [d EXCEPT !.values[id] = v] ELSE d

\* ddImagePlaceDrag leaving the origin input as it is
ddImagePlaceDrag_KeepsOrigin(W, s, drag, drop) ==
    LET c == W.states[s].container
        d == W.dom[c]
        target == d.drops[drop].inputid
        d2 == SetValue(d, target, ToString(d.drags[drag].choice))
    IN  World(W.states,
              [W.dom EXCEPT ![c] = [d2 EXCEPT !.drags[drag].at = drop,
                                              !.drags[drag].placed = TRUE,
                                              !.drags[drag].inputid = target]])

\* ddImagePlaceDrag, lines 599-620
ddImagePlaceDrag(W, s, drag, drop) ==
    LET c == W.states[s].container
        d == W.dom[c]
        target == d.drops[drop].inputid
        origin == d.drags[drag].inputid
        d1 == IF origin # NoInput /\ origin # target THEN SetValue(d, origin, "0") ELSE d
        d2 == SetValue(d1, target, ToString(d.drags[drag].choice))
    IN  World(W.states,
              [W.dom EXCEPT ![c] = [d2 EXCEPT !.drags[drag].at = drop,
                                              !.drags[drag].placed = TRUE,
                                              !.drags[drag].inputid = target]])

\* ddImageRemoveDrag, lines 622-639, for an element
ddImageRemoveDrag(W, s, drag) ==
    LET c == W.states[s].container
        d == W.dom[c]
        origin == d.drags[drag].inputid
        d1 == IF origin # NoInput THEN SetValue(d, origin, "0") ELSE d
    IN  World(W.states,
              [W.dom EXCEPT ![c] = [d1 EXCEPT !.drags[drag].at = AtHome,
                                              !.drags[drag].placed = FALSE,
                                              !.drags[drag].inputid = NoInput]])

\* ddImageDeselect, lines 702-706
ddImageDeselect(W, s) ==
    LET c == W.states[s].container
    IN  World([W.states EXCEPT ![s].selected = NoDrag],
              [W.dom EXCEPT ![c].drags =
                  [i \in DOMAIN W.dom[c].drags |->
                      [W.dom[c].drags[i] EXCEPT !.beingdragged = FALSE]]])

\* ddImageSelect, lines 696-700
ddImageSelect(W, s, drag) ==
    LET V == ddImageDeselect(W, s)
        c == W.states[s].container
    IN  World([V.states EXCEPT ![s].selected = drag],
              [V.dom EXCEPT ![c].drags[drag].beingdragged = TRUE])

\* ddImageRepositionAll, lines 665-685: the drops in document order from
\* the k-th on; each takes the first free instance its input's value names
RECURSIVE ddImageReplaceFrom(_, _, _)
ddImageReplaceFrom(W, s, k) ==
    LET c == W.states[s].container
        d == W.dom[c]
    IN  IF k > Len(d.dropOrder) THEN W
        ELSE LET drop == d.dropOrder[k]
                 id == d.drops[drop].inputid
                 choice == IF id \in DOMAIN d.values THEN NumberOf(d.values[id]) ELSE 0
                 Free(x) == /\ x.group = d.drops[drop].group
                            /\ x.choice = choice
                            /\ ~x.placed
                            /\ ~x.beingdragged
                 available == FirstInOrder(d.drags, Free)
             IN  IF choice > 0 /\ available # NoDrag
                     THEN ddImageReplaceFrom(ddImagePlaceDrag(W, s, available, drop), s, k + 1)
                     ELSE ddImageReplaceFrom(W, s, k + 1)

\* lines 688-693: the instances left over go home
RECURSIVE ddImageReturnFrom(_, _, _)
ddImageReturnFrom(W, s, drag) ==
    LET d == W.dom[W.states[s].container]
    IN  IF drag > Len(d.drags) THEN W
        ELSE IF ~d.drags[drag].placed /\ ~d.drags[drag].beingdragged
            THEN ddImageReturnFrom(ddImageRemoveDrag(W, s, drag), s, drag + 1)
            ELSE ddImageReturnFrom(W, s, drag + 1)

\* ddImageRepositionAll, lines 641-694
ddImageRepositionAll(W, s) ==
    LET c == W.states[s].container
        V == World([W.states EXCEPT ![s].proportion = W.dom[c].ratio],
                   [W.dom EXCEPT ![c].drags =
                       [i \in DOMAIN W.dom[c].drags |->
                           [W.dom[c].drags[i] EXCEPT !.placed = FALSE,
                                                     !.inputid = NoInput]]])
    IN  ddImageReturnFrom(ddImageReplaceFrom(V, s, 1), s, 1)

\* the listener of a draggable, lines 578-586
ddImageDragClicked(W, s, drag) ==
    IF W.dom[W.states[s].container].drags[drag].beingdragged
        THEN ddImageDeselect(W, s)
        ELSE ddImageSelect(W, s, drag)

\* ddImageDropClick, lines 590-597
ddImageDropClick(W, s, drop) ==
    LET c == W.states[s].container
        drag == W.states[s].selected
    IN  IF drag = NoDrag THEN W
        ELSE IF W.dom[c].drops[drop].group = W.dom[c].drags[drag].group
            THEN ddImagePlaceDrag(ddImageDeselect(W, s), s, drag, drop)
            ELSE ddImageDeselect(W, s)

\* the listener of the drag items area, lines 459-465.  ddImageRemoveDrag is
\* handed state.selected as read after ddImageDeselect; handed null it
\* throws at drag.getAttribute (line 623) and the listener ends there
ddImageHomeClicked(W, s) ==
    IF W.states[s].selected = NoDrag THEN W
    ELSE LET V == ddImageDeselect(W, s)
         IN  IF V.states[s].selected = NoDrag THEN V
             ELSE ddImageRemoveDrag(V, s, V.states[s].selected)

\* the drop nodes in document order: ddImageInitDrops hangs every node into
\* the node of its group, lines 508-537; nodes of the markup stay in place
RECURSIVE DropsByGroup(_, _)
DropsByGroup(drops, g) ==
    IF g > 8 THEN <<>>
    ELSE SelectSeq([p \in DOMAIN drops |-> p], LAMBDA p : drops[p].group = g)
         \o DropsByGroup(drops, g + 1)

\* initDdImageOrText, lines 357-480, for state object s over container c
initDdImageOrText(W, s, c, readOnly) ==
    LET d == W.dom[c]
        owner == IF readOnly THEN 0 ELSE s
        state == [type |-> "ddimageortext", container |-> c, readOnly |-> readOnly,
                  selected |-> NoDrag, proportion |-> d.ratio]
        created == ~d.dropNodes
        d1 == [d EXCEPT !.dropNodes = TRUE,
                        !.dropOrder = IF created THEN DropsByGroup(d.drops, 1) ELSE @,
                        !.dropListeners = IF created /\ ~readOnly THEN Append(@, s) ELSE @,
                        !.drags = @ \o ImageCloneAll(d.homes, d.drops, 0, owner, 1),
                        !.homeListeners = IF readOnly THEN @ ELSE Append(@, s)]
    IN  ddImageRepositionAll(World((s :> state) @@ W.states, [W.dom EXCEPT ![c] = d1]), s)

(***************************************************************************)
(* Marker drop (ddmarker)                                                  *)
(*                                                                         *)
(* The value of a choice's hidden input, "x,y;x,y;...", is held as the     *)
(* sequence of its ";"-separated parts: a pair <<x, y>>, or Malformed for  *)
(* a part that is not two numbers.  A ratio w/n of displayed to natural    *)
(* image width is the pair <<w, n>>.  A draggable is drawn over its home   *)
(* or at a point of the image, kept in half pixels so that the ratios 1/2, *)
(* 1 and 2 give whole numbers.  Elements come and go, so a draggable has   *)
(* an id, and state.selected holds the id.                                 *)
(***************************************************************************)
Malformed == <<"x">>

\* where a marker is drawn when not at a point of the image
OverHome == <<"home">>
Undrawn == <<"none">>

\* null for a position
NoPoint == <<>>

Ratios == { <<1, 2>>, <<1, 1>> }

\* Math.round(a / b) for a >= 0, b > 0
Round(a, b) == (2 * a + b) \div (2 * b)

\* state.proportion < 1
Shrunk(ratio) == ratio[1] < ratio[2]

\* lines 859-863: the clicked offset in image pixels
ToImage(offset, ratio) ==
    IF Shrunk(ratio)
        THEN << Round(offset[1] * ratio[2], ratio[1]), Round(offset[2] * ratio[2], ratio[1]) >>
        ELSE offset

\* a pair drawn at its image coordinates whatever the ratio
Drawn_Unscaled(pair, ratio) == << 2 * pair[1], 2 * pair[2] >>

\* lines 956-957: where a pair is drawn, in half pixels from the image's corner
Drawn(pair, ratio) ==
    << (2 * pair[1] * ratio[1]) \div ratio[2], (2 * pair[2] * ratio[1]) \div ratio[2] >>

\* lines 888-896: the pair read back from where an element is drawn
ReadBack(pos, ratio) ==
    IF Shrunk(ratio)
        THEN << Round(pos[1] * ratio[2], 2 * ratio[1]), Round(pos[2] * ratio[2], 2 * ratio[1]) >>
        ELSE << pos[1] \div 2, pos[2] \div 2 >>

IndexOfId(drags, id) == CHOOSE i \in DOMAIN drags : drags[i].id = id

\* an id no element of the container has
FreshId(drags) ==
    CHOOSE n \in 1..(Len(drags) + 1) : \A i \in DOMAIN drags : drags[i].id # n

\* the home of a choice: its place among the homes
HomeOf(homes, choiceNo) == CHOOSE h \in DOMAIN homes : homes[h].choice = choiceNo

\* homeEl.parentElement.insertBefore(x, homeEl.nextSibling): x comes right
\* behind its home, before the elements inserted there earlier
InsertBehindHome(d, x) ==
    LET h == HomeOf(d.homes, x.choice)
        k == Cardinality({i \in DOMAIN d.drags : HomeOf(d.homes, d.drags[i].choice) < h})
    IN  [d EXCEPT !.drags = SubSeq(@, 1, k) \o <<x>> \o SubSeq(@, k + 1, Len(@))]

MarkerClone(d, item, choiceNo, unplaced, owner) ==
    [id |-> FreshId(d.drags), item |-> item, choice |-> choiceNo,
     unplaced |-> unplaced, beingdragged |-> FALSE,
     unneeded |-> FALSE, pos |-> Undrawn, owner |-> owner]

\* lines 751-767: the draggables cloned of the homes from h on; one home
\* yields one, an infinite home noofdrags
RECURSIVE MarkerCloneAll(_, _, _, _, _)
MarkerCloneAll(d, owner, h, i, itemNo) ==
    IF h > Len(d.homes) THEN d
    ELSE IF i > (IF d.homes[h].infinite THEN d.homes[h].noofdrags ELSE 1)
        THEN MarkerCloneAll(d, owner, h + 1, 1, itemNo)
        ELSE MarkerCloneAll(
                 InsertBehindHome(d, MarkerClone(d, itemNo, d.homes[h].choice, FALSE, owner)),
                 owner, h, i + 1, itemNo + 1)

\* ddMarkerDeselect, lines 1141-1145
ddMarkerDeselect(W, s) ==
    LET c == W.states[s].container
    IN  World([W.states EXCEPT ![s].selected = NoDrag],
              [W.dom EXCEPT ![c].drags =
                  [i \in DOMAIN W.dom[c].drags |->
                      [W.dom[c].drags[i] EXCEPT !.beingdragged = FALSE]]])

\* ddMarkerSelect, lines 1135-1139
ddMarkerSelect(W, s, id) ==
    LET V == ddMarkerDeselect(W, s)
        c == W.states[s].container
    IN  World([V.states EXCEPT ![s].selected = id],
              [V.dom EXCEPT ![c].drags[IndexOfId(V.dom[c].drags, id)].beingdragged = TRUE])

\* ddMarkerRedraw, lines 937-966: the parts of a value from the k-th on;
\* part number itemIdx of the well-formed ones goes to the element of class
\* item<itemIdx>, cloned if there is none.  Gives the container and the
\* number of parts drawn
RECURSIVE RedrawParts(_, _, _, _, _, _)
RedrawParts(d, choiceNo, k, itemIdx, ratio, owner) ==
    LET value == d.values[choiceNo]
    IN  IF k > Len(value) THEN [d |-> d, drawn |-> itemIdx]
        ELSE IF value[k] = Malformed
            THEN RedrawParts(d, choiceNo, k + 1, itemIdx, ratio, owner)
        ELSE LET Item(x) == x.choice = choiceNo /\ x.item = itemIdx /\ ~x.beingdragged
                 found == FirstDrag(d.drags, Item)
                 d1 == IF found = NoDrag
                           THEN InsertBehindHome(d, MarkerClone(d, itemIdx, choiceNo, FALSE, owner))
                           ELSE [d EXCEPT !.drags[found].unneeded = FALSE]
                 at == IF found = NoDrag
                           THEN IndexOfId(d1.drags, FreshId(d.drags))
                           ELSE found
                 d2 == [d1 EXCEPT !.drags[at].pos = Drawn(value[k], ratio),
                                  !.drags[at].unplaced = FALSE]
             IN  RedrawParts(d2, choiceNo, k + 1, itemIdx + 1, ratio, owner)

\* ddMarkerRedraw, lines 968-987: one draggable of the choice is kept over
\* the home while the choice has draggables left
RedrawHome(d, h, itemIdx, selectedChoice, owner) ==
    LET choiceNo == d.homes[h].choice
        displayedDrags == itemIdx + (IF selectedChoice = choiceNo THEN 1 ELSE 0)
        Free(x) == x.choice = choiceNo /\ x.unplaced /\ ~x.beingdragged
        found == FirstDrag(d.drags, Free)
        d1 == IF found = NoDrag
                  THEN InsertBehindHome(d, MarkerClone(d, itemIdx, choiceNo, TRUE, owner))
                  ELSE d
        at == IF found = NoDrag THEN IndexOfId(d1.drags, FreshId(d.drags)) ELSE found
    IN  IF d.homes[h].infinite \/ displayedDrags < d.homes[h].noofdrags
            THEN [d1 EXCEPT !.drags[at].unneeded = FALSE, !.drags[at].pos = OverHome]
            ELSE d

\* ddMarkerRedraw, lines 926-988: the inputs from the h-th on; an input
\* without a value is passed over
RECURSIVE RedrawInputs(_, _, _, _, _)
RedrawInputs(d, h, ratio, selectedChoice, owner) ==
    IF h > Len(d.homes) THEN d
    ELSE IF d.values[d.homes[h].choice] = <<>>
        THEN RedrawInputs(d, h + 1, ratio, selectedChoice, owner)
    ELSE LET r == RedrawParts(d, d.homes[h].choice, 1, 0, ratio, owner)
         IN  RedrawInputs(RedrawHome(r.d, h, r.drawn, selectedChoice, owner),
                          h + 1, ratio, selectedChoice, owner)

\* The ids are names only: once the elements of container c have changed,
\* each is named by its place in the document again, and so is what the
\* state objects hold as selected.  The class unneeded is read by the
\* redraw that set it and by nothing after it, so it is not kept; the class
\* placed is read by nothing and not modelled.
Renamed(W, c) ==
    LET drags == W.dom[c].drags
    IN  World([s \in DOMAIN W.states |->
                  IF W.states[s].container = c /\ W.states[s].selected # NoDrag
                      THEN [W.states[s] EXCEPT !.selected = IndexOfId(drags, @)]
                      ELSE W.states[s]],
              [W.dom EXCEPT ![c].drags =
                  [i \in DOMAIN drags |-> [drags[i] EXCEPT !.id = i, !.unneeded = FALSE]]])

\* ddMarkerRedraw, lines 909-1002
ddMarkerRedraw(W, s) ==
    LET c == W.states[s].container
        d == W.dom[c]
        owner == IF W.states[s].readOnly THEN 0 ELSE s
        before == {d.drags[i].id : i \in DOMAIN d.drags}
        d1 == [d EXCEPT !.drags = [i \in DOMAIN d.drags |->
                                      [d.drags[i] EXCEPT !.unneeded = TRUE, !.unplaced = TRUE]]]
        selectedChoice ==
            IF W.states[s].selected = NoDrag THEN 0
            ELSE d.drags[IndexOfId(d.drags, W.states[s].selected)].choice
        d2 == RedrawInputs(d1, 1, d.ratio, selectedChoice, owner)
        Stays(x) == ~(x.id \in before /\ x.unneeded /\ ~x.beingdragged)
    IN  Renamed(World([W.states EXCEPT ![s].proportion = d.ratio],
                      [W.dom EXCEPT ![c] = [d2 EXCEPT !.drags = SelectSeq(d2.drags, Stays)]]),
                c)

\* ddMarkerSaveCoords, lines 883-898: the pairs of the choice's other placed
\* draggables, read back from where they are drawn
RECURSIVE OtherCoords(_, _, _, _, _)
OtherCoords(drags, i, choiceNo, dropped, ratio) ==
    IF i > Len(drags) THEN <<>>
    ELSE (IF /\ drags[i].choice = choiceNo
             /\ drags[i].id # dropped
             /\ ~drags[i].beingdragged
             /\ ~drags[i].unplaced
              THEN << ReadBack(drags[i].pos, ratio) >>
              ELSE <<>>)
         \o OtherCoords(drags, i + 1, choiceNo, dropped, ratio)

\* ddMarkerSaveCoords losing the pairs of the other draggables
ddMarkerSaveCoords_OnlyDropped(W, s, choiceNo, dropped, position) ==
    LET c == W.states[s].container
        d == W.dom[c]
        at == IndexOfId(d.drags, dropped)
    IN  World(W.states,
              [W.dom EXCEPT ![c].values[choiceNo] = IF position = NoPoint THEN <<>> ELSE <<position>>,
                            ![c].drags[at].unplaced = (position = NoPoint)])

\* ddMarkerSaveCoords, lines 869-907; position NoPoint is null
ddMarkerSaveCoords(W, s, choiceNo, dropped, position) ==
    LET c == W.states[s].container
        d == W.dom[c]
        at == IndexOfId(d.drags, dropped)
        coords == OtherCoords(d.drags, 1, choiceNo, dropped, W.states[s].proportion)
    IN  World(W.states,
              [W.dom EXCEPT ![c].values[choiceNo] =
                                IF position = NoPoint THEN coords ELSE Append(coords, position),
                            ![c].drags[at].unplaced = (position = NoPoint)])

\* ddMarkerDropAt, lines 858-867; offset NoPoint is null
ddMarkerDropAt(W, s, dropped, offset) ==
    LET c == W.states[s].container
        d == W.dom[c]
        choiceNo == d.drags[IndexOfId(d.drags, dropped)].choice
        position == IF offset = NoPoint THEN NoPoint ELSE ToImage(offset, W.states[s].proportion)
    IN  ddMarkerRedraw(ddMarkerSaveCoords(W, s, choiceNo, dropped, position), s)

\* the listener of a draggable, lines 820-829
ddMarkerDragClicked(W, s, id) ==
    LET d == W.dom[W.states[s].container]
    IN  IF d.drags[IndexOfId(d.drags, id)].beingdragged
            THEN ddMarkerDeselect(W, s)
            ELSE ddMarkerSelect(W, s, id)

\* the listener of the background image, lines 834-841
ddMarkerBackgroundClicked(W, s, offset) ==
    LET drag == W.states[s].selected
    IN  IF drag = NoDrag THEN W
        ELSE ddMarkerDropAt(ddMarkerDeselect(W, s), s, drag, offset)

\* the listener of the home area, lines 844-855
ddMarkerHomeClicked(W, s) ==
    LET d == W.dom[W.states[s].container]
        drag == W.states[s].selected
    IN  IF drag = NoDrag THEN W
        ELSE IF d.drags[IndexOfId(d.drags, drag)].unplaced THEN ddMarkerDeselect(W, s)
        ELSE ddMarkerDropAt(ddMarkerDeselect(W, s), s, drag, NoPoint)

\* initDdMarker, lines 712-781, for state object s over container c
initDdMarker(W, s, c, readOnly) ==
    LET d == W.dom[c]
        owner == IF readOnly THEN 0 ELSE s
        state == [type |-> "ddmarker", container |-> c, readOnly |-> readOnly,
                  selected |-> NoDrag, proportion |-> d.ratio]
        d1 == MarkerCloneAll(d, owner, 1, 1, 0)
        d2 == IF readOnly THEN d1
              ELSE [d1 EXCEPT !.bgListeners = Append(@, s),
                              !.homeListeners = Append(@, s)]
    IN  ddMarkerRedraw(World((s :> state) @@ W.states, [W.dom EXCEPT ![c] = d2]), s)

(***************************************************************************)
(* The question markup a quiz page shows, and the events on it             *)
(***************************************************************************)
\* largest coordinate a hidden input may come to hold
MaxCoord == 40

\* largest number of ";"-separated parts a hidden input may come to hold
MaxParts == 2

\* A word bank with two slots of group 1, two words of group 1 and one of
\* group 2.  hasDrags: the markup brings its own .drags element, outside
\* the answer container; otherwise initDdwtos makes one inside it.
WordBank(values, hasDrags) ==
    [type |-> "ddwtos", values |-> values, drops |-> <<1, 1>>,
     homes |-> << [group |-> 1, choice |-> 1, infinite |-> FALSE],
                  [group |-> 1, choice |-> 2, infinite |-> FALSE],
                  [group |-> 2, choice |-> 1, infinite |-> FALSE] >>,
     drags |-> <<>>, hasDrags |-> hasDrags, dragsInHome |-> FALSE,
     dropListeners |-> <<>>, homeListeners |-> <<>>]

\* An image with two drops of group 1 and two draggable items of group 1.
\* dropNodes: the markup brings the drop nodes inside .dropzones; otherwise
\* it describes them ([data-xy]) and ddImageInitDrops makes the nodes.
ImageDrop(values, dropNodes) ==
    [type |-> "ddimageortext", values |-> values,
     drops |-> << [group |-> 1, inputid |-> 1], [group |-> 1, inputid |-> 2] >>,
     homes |-> << [group |-> 1, choice |-> 1, infinite |-> FALSE],
                  [group |-> 1, choice |-> 2, infinite |-> FALSE] >>,
     drags |-> <<>>, dropNodes |-> dropNodes,
     dropOrder |-> IF dropNodes THEN <<1, 2>> ELSE <<>>,
     ratio |-> <<1, 1>>, dropListeners |-> <<>>, homeListeners |-> <<>>]

\* An image with two markers of one choice.
MarkerDrop(values) ==
    [type |-> "ddmarker", values |-> values,
     homes |-> << [choice |-> 1, noofdrags |-> 2, infinite |-> FALSE] >>,
     drags |-> <<>>, ratio |-> <<1, 1>>, bgListeners |-> <<>>, homeListeners |-> <<>>]

WordBanks ==
    { WordBank(v, h) : v \in { <<"", "">>, <<"2", "">> }, h \in BOOLEAN }

ImageDrops ==
    { ImageDrop(v, n) : v \in { <<"", "">>, <<"0", "1">> }, n \in BOOLEAN }

MarkerDrops ==
    { MarkerDrop(v) : v \in { << <<>> >>, << << <<8, 12>> >> >> } }

\* the containers under the root element handed to initQuestions
WordRoots == { <<q>> : q \in WordBanks }
ImageRoots == { <<q>> : q \in ImageDrops }
MarkerRoots == { <<q>> : q \in MarkerDrops }

\* offsets of a click on the background image
ClickPoints == { <<4, 6>> }

HasRatio(d) == d.type \in {"ddimageortext", "ddmarker"}

\* the containers with their images showing at ratio
AtRatio(d, ratio) ==
    [c \in DOMAIN d |->
        IF HasRatio(d[c]) THEN [d[c] EXCEPT !.ratio = ratio] ELSE d[c]] \o <<>>

\* root.querySelectorAll('.que.<type>'), lines 87, 93, 99
OfType(d, type) == SelectSeq([c \in DOMAIN d |-> c], LAMBDA c : d[c].type = type)

InitOrder(d) ==
    OfType(d, "ddwtos") \o OfType(d, "ddimageortext") \o OfType(d, "ddmarker")

\* activeStates.push(state), lines 128, 367, 726
NewStateId(st) == Cardinality(DOMAIN st) + 1

InitContainer(W, c, readOnly) ==
    LET s == NewStateId(W.states)
    IN  CASE W.dom[c].type = "ddwtos" -> initDdwtos(W, s, c, readOnly)
          [] W.dom[c].type = "ddimageortext" -> initDdImageOrText(W, s, c, readOnly)
          [] W.dom[c].type = "ddmarker" -> initDdMarker(W, s, c, readOnly)

RECURSIVE InitFrom(_, _, _, _)
InitFrom(W, order, k, readOnly) ==
    IF k > Len(order) THEN W
    ELSE InitFrom(InitContainer(W, order[k], readOnly), order, k + 1, readOnly)

\* what a listener closed over state object s does on an event
Heard(W, s, e) ==
    LET type == W.states[s].type
    IN  CASE type = "ddwtos" /\ e.on = "drag" -> ddwtosDragClicked(W, s, e.target)
          [] type = "ddwtos" /\ e.on = "drop" -> ddwtosDropClicked(W, s, e.target)
          [] type = "ddwtos" /\ e.on = "home" -> ddwtosHomeClicked(W, s)
          [] type = "ddimageortext" /\ e.on = "drag" -> ddImageDragClicked(W, s, e.target)
          [] type = "ddimageortext" /\ e.on = "drop" -> ddImageDropClick(W, s, e.target)
          [] type = "ddimageortext" /\ e.on = "home" -> ddImageHomeClicked(W, s)
          [] type = "ddmarker" /\ e.on = "drag" -> ddMarkerDragClicked(W, s, e.target)
          [] type = "ddmarker" /\ e.on = "background" -> ddMarkerBackgroundClicked(W, s, e.target)
          [] type = "ddmarker" /\ e.on = "home" -> ddMarkerHomeClicked(W, s)

\* the listeners of one element run in the order they were added
RECURSIVE Dispatch(_, _, _, _)
Dispatch(W, listeners, k, e) ==
    IF k > Len(listeners) THEN W
    ELSE Dispatch(Heard(W, listeners[k], e), listeners, k + 1, e)

\* the viewport resize listeners of the active states, lines 171, 477, 779
ResizeHeard(W, s) ==
    CASE W.states[s].type = "ddwtos" -> ddwtosPositionAll(W, s)
      [] W.states[s].type = "ddimageortext" -> ddImageRepositionAll(W, s)
      [] W.states[s].type = "ddmarker" -> ddMarkerRedraw(W, s)

RECURSIVE ResizeFrom(_, _, _)
ResizeFrom(W, active, k) ==
    IF k > Len(active) THEN W
    ELSE ResizeFrom(ResizeHeard(W, active[k]), active, k + 1)

\* no hidden input of a marker container holds more than MaxParts parts or
\* a coordinate above MaxCoord
CoordsWithin(d) ==
    \A c \in DOMAIN d :
        d[c].type = "ddmarker"
        => \A ch \in DOMAIN d[c].values :
               /\ Len(d[c].values[ch]) <= MaxParts
               /\ \A k \in DOMAIN d[c].values[ch] :
                  d[c].values[ch][k] # Malformed
                    => /\ d[c].values[ch][k][1] <= MaxCoord
                       /\ d[c].values[ch][k][2] <= MaxCoord

Becomes(W) ==
    /\ CoordsWithin(W.dom)
    /\ states' = W.states
    /\ dom' = W.dom

\* the click on target of container c that has just been delivered
Clicked(on, c, target) ==
    /\ lastClick' = [on |-> on, c |-> c, target |-> target,
                     states |-> states, dom |-> dom]
    /\ UNCHANGED scanVars

\* the page sets the markup and calls initQuestions(root, readOnly), lines
\* 85-103; the images show at ratio
InitQuestions(root, readOnly, ratio) ==
    /\ dom = << >>
    /\ LET shown == AtRatio(root, ratio)
           W == InitFrom(World(states, shown), InitOrder(shown), 1, readOnly)
       IN  /\ Becomes(W)
           /\ activeStates' = activeStates \o
                  [k \in 1..Len(InitOrder(shown)) |-> NewStateId(states) + k - 1]
    /\ lastClick' = Null
    /\ UNCHANGED scanVars
    /\ UNCHANGED <<cacheVars, asset>>

\* a click on the draggable at place i of container c: its own listener,
\* then, unless that stopped the propagation, those of the home area the
\* draggable lies in
ClickDrag(c, i) ==
    /\ c \in DOMAIN dom
    /\ i \in DOMAIN dom[c].drags
    /\ LET drag == dom[c].drags[i]
           e == [on |-> "drag",
                 target |-> IF dom[c].type = "ddmarker" THEN drag.id ELSE i]
           W == IF drag.owner = 0 THEN World(states, dom)
                ELSE Heard(World(states, dom), drag.owner, e)
           bubbles == IF dom[c].type = "ddwtos" THEN dom[c].dragsInHome
                      ELSE drag.owner = 0
       IN  Becomes(IF bubbles THEN Dispatch(W, dom[c].homeListeners, 1, [on |-> "home"])
                   ELSE W)
    /\ Clicked("drag", c, i)
    /\ UNCHANGED <<cacheVars, asset, activeStates>>

\* a click on drop p of a word bank or an image
ClickDrop(c, p) ==
    /\ c \in DOMAIN dom
    /\ dom[c].type \in {"ddwtos", "ddimageortext"}
    /\ p \in DOMAIN dom[c].drops
    /\ Becomes(Dispatch(World(states, dom), dom[c].dropListeners, 1,
                        [on |-> "drop", target |-> p]))
    /\ Clicked("drop", c, p)
    /\ UNCHANGED <<cacheVars, asset, activeStates>>

\* a click on the home area, off the draggables
ClickHome(c) ==
    /\ c \in DOMAIN dom
    /\ Becomes(Dispatch(World(states, dom), dom[c].homeListeners, 1, [on |-> "home"]))
    /\ Clicked("home", c, 0)
    /\ UNCHANGED <<cacheVars, asset, activeStates>>

\* a click on the background image of a marker container
ClickBackground(c, offset) ==
    /\ c \in DOMAIN dom
    /\ dom[c].type = "ddmarker"
    /\ Becomes(Dispatch(World(states, dom), dom[c].bgListeners, 1,
                        [on |-> "background", target |-> offset]))
    /\ Clicked("background", c, offset)
    /\ UNCHANGED <<cacheVars, asset, activeStates>>

\* the viewport is resized and the images come to show at ratio
Resize(ratio) ==
    /\ dom # << >>
    /\ Becomes(ResizeFrom(World(states, AtRatio(dom, ratio)), activeStates, 1))
    /\ lastClick' = Null
    /\ UNCHANGED scanVars
    /\ UNCHANGED <<cacheVars, asset, activeStates>>

\* destroy(), lines 106-111: the resize listeners go, the click listeners stay
Destroy ==
    /\ activeStates # <<>>
    /\ activeStates' = <<>>
    /\ lastClick' = Null
    /\ UNCHANGED scanVars
    /\ UNCHANGED <<cacheVars, asset, states, dom>>

NextEngine ==
    \/ \E readOnly \in BOOLEAN, ratio \in Ratios :
           \/ \E root \in WordRoots : InitQuestions(root, readOnly, ratio)
           \/ \E root \in ImageRoots : InitQuestions(root, readOnly, ratio)
           \/ \E root \in MarkerRoots : InitQuestions(root, readOnly, ratio)
    \/ \E c \in DOMAIN dom : \E i \in DOMAIN dom[c].drags : ClickDrag(c, i)
    \/ \E c \in DOMAIN dom : \E p \in 1..2 : ClickDrop(c, p)
    \/ \E c \in DOMAIN dom : ClickHome(c)
    \/ \E c \in DOMAIN dom, offset \in ClickPoints : ClickBackground(c, offset)
    \/ \E ratio \in Ratios : Resize(ratio)
    \/ Destroy

SpecEngine == InitOver(0) /\ [][NextEngine]_vars

(***************************************************************************)
(* C16  One selection for the whole engine                                 *)
(***************************************************************************)
\* two question containers under one root, in every pairing of the layouts
WordWordRoots == { <<p, q>> : p \in WordBanks, q \in WordBanks }
WordImageRoots == { <<p, q>> : p \in WordBanks, q \in ImageDrops }
WordMarkerRoots == { <<p, q>> : p \in WordBanks, q \in MarkerDrops }
ImageImageRoots == { <<p, q>> : p \in ImageDrops, q \in ImageDrops }
ImageMarkerRoots == { <<p, q>> : p \in ImageDrops, q \in MarkerDrops }
MarkerMarkerRoots == { <<p, q>> : p \in MarkerDrops, q \in MarkerDrops }

\* clicks on the draggable items of two containers handled by one engine
NextSelect ==
    \/ \E readOnly \in BOOLEAN, ratio \in Ratios :
           \/ \E root \in WordWordRoots : InitQuestions(root, readOnly, ratio)
           \/ \E root \in WordImageRoots : InitQuestions(root, readOnly, ratio)
           \/ \E root \in WordMarkerRoots : InitQuestions(root, readOnly, ratio)
           \/ \E root \in ImageImageRoots : InitQuestions(root, readOnly, ratio)
           \/ \E root \in ImageMarkerRoots : InitQuestions(root, readOnly, ratio)
           \/ \E root \in MarkerMarkerRoots : InitQuestions(root, readOnly, ratio)
    \/ \E c \in DOMAIN dom : \E i \in DOMAIN dom[c].drags : ClickDrag(c, i)

SpecSelect == InitOver(0) /\ [][NextSelect]_vars

\* the draggables of container c shown as selected
ShownSelected(c) ==
    { i \in DOMAIN dom[c].drags :
        IF dom[c].type = "ddwtos" THEN dom[c].drags[i].selected
        ELSE dom[c].drags[i].beingdragged }

\* the state objects that hold a selected draggable
HoldingSelected == { s \in DOMAIN states : states[s].selected # NoDrag }

\* C16: whatever draggable items are clicked in the containers one engine
\* handles, at most one draggable is selected in all of them together.
C16_OneSelectionEngineWide ==
    /\ Cardinality(HoldingSelected) <= 1
    /\ \A c1, c2 \in DOMAIN dom :
           ShownSelected(c1) # {} /\ ShownSelected(c2) # {} => c1 = c2
    /\ \A c \in DOMAIN dom : Cardinality(ShownSelected(c)) <= 1

(***************************************************************************)
(* C17  A click on a drop target with an item selected                     *)
(***************************************************************************)
\* the state objects of the clicked container that held a selected
\* draggable when the click came
SelectedBefore ==
    { s \in DOMAIN lastClick.states :
        /\ lastClick.states[s].container = lastClick.c
        /\ lastClick.states[s].selected # NoDrag }

\* container c is left with no draggable selected
NoneSelected(c) ==
    /\ \A s \in DOMAIN states : states[s].container = c => states[s].selected = NoDrag
    /\ ShownSelected(c) = {}

\* the click was on a drop of a word bank that takes the group of the
\* draggable state object s had selected
WordDropTaken(s) ==
    LET before == lastClick.dom[lastClick.c]
    IN  /\ lastClick.on = "drop"
        /\ before.type = "ddwtos"
        /\ before.drags[lastClick.states[s].selected].group = before.drops[lastClick.target]

\* the same for a drop of an image
ImageDropTaken(s) ==
    LET before == lastClick.dom[lastClick.c]
    IN  /\ lastClick.on = "drop"
        /\ before.type = "ddimageortext"
        /\ before.drags[lastClick.states[s].selected].group
               = before.drops[lastClick.target].group

\* the click was on the background image of a marker container
MarkerDropTaken(s) ==
    /\ lastClick.on = "background"
    /\ lastClick.dom[lastClick.c].type = "ddmarker"

\* C17: in each layout, a click on a valid drop target while an item is
\* selected commits the placement (word bank and image: the hidden input of
\* the target slot becomes the choice id of the item; marker: the clicked
\* point is appended to the coordinate list of the choice) and leaves no
\* item selected.
C17_DropClickCommits ==
    lastClick # Null =>
        \A s \in SelectedBefore :
            LET c == lastClick.c
                before == lastClick.dom[c]
                drag == lastClick.states[s].selected
            IN  /\ WordDropTaken(s)
                    => /\ dom[c].values[lastClick.target] = ToString(before.drags[drag].choice)
                       /\ NoneSelected(c)
                /\ ImageDropTaken(s)
                    => /\ dom[c].values[before.drops[lastClick.target].inputid]
                              = ToString(before.drags[drag].choice)
                       /\ NoneSelected(c)
                /\ MarkerDropTaken(s)
                    => LET choiceNo == before.drags[IndexOfId(before.drags, drag)].choice
                           value == dom[c].values[choiceNo]
                       IN  /\ value # <<>>
                           /\ value[Len(value)]
                                  = ToImage(lastClick.target, lastClick.states[s].proportion)
                           /\ NoneSelected(c)

(***************************************************************************)
(* C18  A click on the home area with a placed item selected               *)
(***************************************************************************)
\* the click was on the home area of a container of the given layout
HomeClicked(type) ==
    /\ lastClick.on = "home"
    /\ lastClick.dom[lastClick.c].type = type

\* C18: in each of the three layouts, a click on the home area while a
\* placed item is selected returns the item to the unplaced pool, removes
\* its answer from the hidden field (the value of its slot reads as empty,
\* or the coordinate list of its choice gets one pair shorter) and leaves no
\* item selected.
C18_HomeClickReturns ==
    lastClick # Null =>
        \A s \in SelectedBefore :
            LET c == lastClick.c
                before == lastClick.dom[c]
                drag == lastClick.states[s].selected
            IN  /\ HomeClicked("ddwtos")
                    => LET no == before.drags[drag].no
                           placeNo == PlaceOf(lastClick.states[s].placed, no)
                       IN  placeNo # 0
                           => /\ PlaceOf(states[s].placed, no) = 0
                              /\ dom[c].drags[drag].unplaced
                              /\ NumberOf(dom[c].values[placeNo]) = 0
                              /\ NoneSelected(c)
                /\ HomeClicked("ddimageortext")
                    => LET id == before.drags[drag].inputid
                       IN  id # NoInput
                           => /\ ~dom[c].drags[drag].placed
                              /\ dom[c].drags[drag].inputid = NoInput
                              /\ NumberOf(dom[c].values[id]) = 0
                              /\ NoneSelected(c)
                /\ HomeClicked("ddmarker")
                    => LET at == IndexOfId(before.drags, drag)
                           choiceNo == before.drags[at].choice
                       IN  ~before.drags[at].unplaced
                           => /\ Len(dom[c].values[choiceNo]) + 1 = Len(before.values[choiceNo])
                              /\ NoneSelected(c)

(***************************************************************************)
(* C19  Word bank: placing into an occupied slot                           *)
(***************************************************************************)
\* the numbers of the draggables state object s had on the clicked drop,
\* the one it had selected left out
OccupantsBefore(s) ==
    LET before == lastClick.dom[lastClick.c]
        placed == lastClick.states[s].placed
    IN  { no \in DOMAIN placed :
            /\ placed[no] = lastClick.target
            /\ no # before.drags[lastClick.states[s].selected].no }

\* no two draggables of a word bank are mapped to the same slot
OnePerPlace ==
    \A s \in DOMAIN states :
        states[s].type = "ddwtos"
        => \A n1, n2 \in DOMAIN states[s].placed :
               states[s].placed[n1] = states[s].placed[n2] => n1 = n2

ImagePlaced(s) ==
    /\ ImageDropTaken(s)
    /\ \E k \in DOMAIN lastClick.dom[lastClick.c].dropListeners :
           lastClick.dom[lastClick.c].dropListeners[k] = s

\* the hidden inputs of container c other than those in ids are as the
\* click found them
OnlyWritten(c, ids) ==
    \A id \in DOMAIN dom[c].values \ ids :
        dom[c].values[id] = lastClick.dom[c].values[id]

AllRatios == Ratios \cup { <<2, 1>> }

\* marker containers whose hidden input comes empty, with one pair, and
\* with a part that is not two numbers before the pair
MarkerMarkup ==
    { MarkerDrop(v) : v \in { << <<>> >>, << << <<8, 12>> >> >>,
                               << << Malformed, <<8, 12>> >> >> } }

NextMarker ==
    \/ \E readOnly \in BOOLEAN, ratio \in AllRatios :
           \E q \in MarkerMarkup : InitQuestions(<<q>>, readOnly, ratio)
    \/ \E c \in DOMAIN dom : \E i \in DOMAIN dom[c].drags : ClickDrag(c, i)
    \/ \E c \in DOMAIN dom : ClickHome(c)
    \/ \E c \in DOMAIN dom, offset \in ClickPoints : ClickBackground(c, offset)
    \/ \E ratio \in AllRatios : Resize(ratio)
    \/ Destroy

SpecMarker == InitOver(0) /\ [][NextMarker]_vars

(***************************************************************************)
(* C21  Marker redraw reconciles the instances with the hidden field       *)
(***************************************************************************)
\* the parts of a value that are two numbers, line 942
WellFormed(value) == SelectSeq(value, LAMBDA part : part # Malformed)

\* the draggables of a choice shown as placed: those without class unplaced
PlacedOf(d, choiceNo) ==
    { i \in DOMAIN d.drags : d.drags[i].choice = choiceNo /\ ~d.drags[i].unplaced }

\* the draggables of a choice drawn at a point of the image, the one being
\* dragged left out
OnImage(d, choiceNo) ==
    { i \in DOMAIN d.drags :
        /\ d.drags[i].choice = choiceNo
        /\ ~d.drags[i].beingdragged
        /\ d.drags[i].pos \notin {OverHome, Undrawn} }

\* pos, in half pixels, is the pair times the ratio w/n
ScaledAt(pos, pair, ratio) ==
    /\ pos[1] * ratio[2] = 2 * pair[1] * ratio[1]
    /\ pos[2] * ratio[2] = 2 * pair[2] * ratio[1]

\* the instances of every choice are those its hidden input names
Reconciled(d) ==
    \A h \in DOMAIN d.homes :
        LET choiceNo == d.homes[h].choice
            pairs == WellFormed(d.values[choiceNo])
        IN  /\ Cardinality(PlacedOf(d, choiceNo)) = Len(pairs)
            /\ \A k \in DOMAIN pairs :
                   \E i \in PlacedOf(d, choiceNo) :
                       /\ d.drags[i].item = k - 1
                       /\ ScaledAt(d.drags[i].pos, pairs[k], d.ratio)
            /\ OnImage(d, choiceNo) \subseteq PlacedOf(d, choiceNo)

\* the last step ran ddMarkerRedraw for state object s: the scan, a resize
\* while s is active, or a click that dropped the selected draggable
JustRedrawn(s) ==
    IF lastClick = Null
        THEN \E k \in DOMAIN activeStates : activeStates[k] = s
        ELSE /\ s \in SelectedBefore
             /\ \/ lastClick.on = "background"
                \/ /\ lastClick.on = "home"
                   /\ LET before == lastClick.dom[lastClick.c].drags
                      IN  ~before[IndexOfId(before, lastClick.states[s].selected)].unplaced

Unscaled(offset, ratio) ==
    << Round(offset[1] * ratio[2], ratio[1]), Round(offset[2] * ratio[2], ratio[1]) >>

\* state object s is one the engine still holds
Active(s) == \E k \in DOMAIN activeStates : activeStates[k] = s

\* C22: at every ratio of the displayed to the natural image width, a click
\* on the background at offset (sx, sy) with a marker selected appends the
\* pair (sx / ratio, sy / ratio), rounded, to the hidden input of the
\* marker's choice, and the redraw that follows shows a placed instance of
\* the choice at the clicked point.
C22_DropStoresImageCoordinates ==
    lastClick # Null =>
        \A s \in SelectedBefore :
            MarkerDropTaken(s) /\ Active(s)
            => LET c == lastClick.c
                   before == lastClick.dom[c]
                   drag == before.drags[IndexOfId(before.drags, lastClick.states[s].selected)]
                   value == dom[c].values[drag.choice]
               IN  /\ value # <<>>
                   /\ value[Len(value)] = Unscaled(lastClick.target, before.ratio)
                   /\ \E i \in PlacedOf(dom[c], drag.choice) :
                          dom[c].drags[i].pos = << 2 * lastClick.target[1],
                                                   2 * lastClick.target[2] >>

(***************************************************************************)
(* Scanning a root again                                                   *)
(***************************************************************************)
\* initQuestions calls one root may get
MaxScans == 2

\* images whose two hidden inputs name the same choice, of which the
\* markup holds one copy
TwiceNamedRoots == { << ImageDrop(<<"1", "1">>, n) >> : n \in BOOLEAN }

\* the root has a scan to come
ScansLeft == Len(activeStates) < MaxScans * Len(dom)

\* initQuestions(root, readOnly) on the root already scanned, lines 85-103:
\* the containers are found again, with what the earlier scans left in them
Rescan(readOnly) ==
    /\ dom # << >>
    /\ ScansLeft
    /\ LET W == InitFrom(World(states, dom), InitOrder(dom), 1, readOnly)
       IN  /\ Becomes(W)
           /\ activeStates' = activeStates \o
                  [k \in 1..Len(InitOrder(dom)) |-> NewStateId(states) + k - 1]
    /\ lastClick' = [on |-> "scan", c |-> 0, target |-> 0,
                     states |-> states, dom |-> dom]
    /\ UNCHANGED scanVars
    /\ UNCHANGED <<cacheVars, asset>>

\* scans of one root, and the clicks that come between them
NextRescan ==
    \/ \E readOnly \in BOOLEAN :
           \/ \E root \in WordRoots : InitQuestions(root, readOnly, <<1, 1>>)
           \/ \E root \in ImageRoots \cup TwiceNamedRoots :
                 InitQuestions(root, readOnly, <<1, 1>>)
    \/ \E readOnly \in BOOLEAN : Rescan(readOnly)
    \/ ScansLeft /\ \E c \in DOMAIN dom : \E i \in DOMAIN dom[c].drags : ClickDrag(c, i)
    \/ ScansLeft /\ \E c \in DOMAIN dom : \E p \in 1..2 : ClickDrop(c, p)
    \/ ScansLeft /\ \E c \in DOMAIN dom : ClickHome(c)

SpecRescan == InitOver(0) /\ [][NextRescan]_vars

\* the root has just been scanned again; lastClick holds the world before
Rescanned == lastClick # Null /\ lastClick.on = "scan"

\* the state object the last scan made
Newest == activeStates[Len(activeStates)]

\* which item is in which slot: for a word bank state.placed itself, for an
\* image the slots (by hidden input) of the instances shown as placed
ImageMap(d) == { <<d.drags[i].choice, d.drags[i].inputid>> :
                    i \in {k \in DOMAIN d.drags : d.drags[k].placed} }

\* the first scan of the markup that carries the hidden values given
FirstWordScan(values) ==
    initDdwtos(World(<< >>, << WordBank(values, FALSE) >>), 1, 1, FALSE)

FirstImageScan(values) ==
    initDdImageOrText(World(<< >>, << ImageDrop(values, FALSE) >>), 1, 1, FALSE)

\* the values the scan found are those a first scan started from and kept
Unchanged(first, values) == first.dom[1].values = values

\* C23: a scan of a container scanned before, with the hidden values a
\* first scan left as they were, gives the placement map of that first
\* scan: the values alone determine the map, whatever was clicked,
\* selected or cloned before.
C23_RescanSameMap ==
    Rescanned =>
        LET s == Newest
            c == states[s].container
            values == lastClick.dom[c].values
        IN  IF states[s].type = "ddwtos"
                THEN Unchanged(FirstWordScan(values), values)
                     => states[s].placed = FirstWordScan(values).states[1].placed
                ELSE Unchanged(FirstImageScan(values), values)
                     => ImageMap(dom[c]) = ImageMap(FirstImageScan(values).dom[1])

(***************************************************************************)
(* initQuestions await by await                                            *)
(*                                                                         *)
(* initQuestions awaits the init of one container after the other, and     *)
(* each init suspends twice: for the background image (the load event or   *)
(* the 5 s timer, whichever comes first) and for an animation frame.       *)
(* destroy() and the events of the page come in between.  A container is   *)
(* held here by what the awaits and the exits of the inits read: the id of *)
(* its hidden inputs, its background image ("none", "loading", "complete", *)
(* or "broken": complete with naturalWidth 0) and whether it has a .ddarea;*)
(* what the body of an init does to the items is the subject of the        *)
(* sections above.                                                         *)
(***************************************************************************)
Markup(type, inputId, bgImg, ddArea) ==
    [type |-> type, inputId |-> inputId, bgImg |-> bgImg, ddArea |-> ddArea,
     initialised |-> FALSE]

Images == {"none", "loading", "complete", "broken"}

StepContainers ==
    { Markup("ddwtos", id, "none", TRUE) : id \in {"p1", ""} }
    \cup { Markup("ddimageortext", "p1", img, area) : img \in Images, area \in BOOLEAN }
    \cup { Markup("ddmarker", "p1", img, TRUE) : img \in Images }

StepRoots == { <<p, q>> : p \in StepContainers, q \in StepContainers }

\* bgImg && (!bgImg.complete || !bgImg.naturalWidth), lines 375 and 728
AwaitsImage(d) == d.type # "ddwtos" /\ d.bgImg \in {"loading", "broken"}

\* container.querySelector(`#${inputId}`), line 211: "#" is no selector and
\* querySelector raises a SyntaxError
Throws(d) == d.type = "ddwtos" /\ d.inputId = ""

\* if (!ddArea) return, line 388; if (!bgImg) return, line 737
Abandoned(d) ==
    \/ d.type = "ddimageortext" /\ ~d.ddArea
    \/ d.type = "ddmarker" /\ d.bgImg = "none"

Pending == run # Null /\ run.settled = "pending"

\* the loop of initQuestions reaches place k of its containers: past the
\* last one the call is fulfilled; otherwise the init of the container runs
\* up to its first await, lines 118-148, 358-384 and 713-736: the state
\* object is made and pushed, and the init waits for the image if it has to
Enter(st, active, r, d, k) ==
    IF k > Len(r.order)
        THEN [states |-> st, activeStates |-> active,
              run |-> [r EXCEPT !.k = k, !.settled = "fulfilled"]]
        ELSE LET c == r.order[k]
                 s == NewStateId(st)
             IN  [states |-> (s :> [type |-> d[c].type, container |-> c,
                                    readOnly |-> r.readOnly,
                                    resizeCleanup |-> FALSE]) @@ st,
                  activeStates |-> Append(active, s),
                  run |-> [r EXCEPT !.k = k, !.state = s,
                                    !.waits = IF AwaitsImage(d[c]) THEN "image"
                                              ELSE "frame"]]

Entered(e) ==
    /\ states' = e.states
    /\ activeStates' = e.activeStates
    /\ run' = e.run

\* the page sets the markup and calls initQuestions(root, readOnly)
StartInit(root, readOnly) ==
    /\ dom = << >>
    /\ run = Null
    /\ dom' = root
    /\ Entered(Enter(states, activeStates,
                     [order |-> InitOrder(root), k |-> 0, state |-> 0,
                      waits |-> "frame", readOnly |-> readOnly,
                      settled |-> "pending", destroyed |-> FALSE],
                     root, 1))
    /\ UNCHANGED <<cacheVars, asset, lastClick, onResize>>

\* the background image of container c has loaded; the load listener of
\* lines 377 and 730 resolves the wait if the init of c is in it
LoadFires(c) ==
    /\ dom[c].bgImg = "loading"
    /\ dom' = [dom EXCEPT ![c].bgImg = "complete"]
    /\ run' = IF Pending /\ run.order[run.k] = c /\ run.waits = "image"
                  THEN [run EXCEPT !.waits = "frame"]
                  ELSE run
    /\ UNCHANGED <<cacheVars, asset, lastClick, activeStates, states, onResize>>

\* a wait that never ends
TimerFires_Never == FALSE /\ UNCHANGED vars

\* setTimeout(resolve, 5000), lines 379 and 731
TimerFires ==
    /\ Pending
    /\ run.waits = "image"
    /\ run' = [run EXCEPT !.waits = "frame"]
    /\ UNCHANGED <<cacheVars, asset, lastClick, activeStates, states, dom, onResize>>

\* requestAnimationFrame resolves nextFrame, lines 1170-1172: the init goes
\* on behind its await.  It throws, and initQuestions with it; or it returns
\* early; or it runs to its end, where it attaches its resize listener and
\* sets state.resizeCleanup.  initQuestions then goes on to the next
\* container in the same turn of the event loop.
FrameFires ==
    /\ Pending
    /\ run.waits = "frame"
    /\ LET c == run.order[run.k]
           s == run.state
       IN  IF Throws(dom[c])
               THEN /\ run' = [run EXCEPT !.settled = "rejected"]
                    /\ UNCHANGED <<activeStates, states, dom, onResize>>
           ELSE IF Abandoned(dom[c])
               THEN /\ Entered(Enter(states, activeStates, run, dom, run.k + 1))
                    /\ UNCHANGED <<dom, onResize>>
           ELSE /\ dom' = [dom EXCEPT ![c].initialised = TRUE]
                /\ onResize' = Append(onResize, s)
                /\ Entered(Enter([states EXCEPT ![s].resizeCleanup = TRUE],
                                 activeStates, run, dom, run.k + 1))
    /\ UNCHANGED <<cacheVars, asset, lastClick>>

\* destroy(), lines 106-111, while or after initQuestions runs:
\* state.resizeCleanup?.() for the states of activeStates, then the list is
\* emptied
DestroyMeanwhile ==
    /\ run # Null
    /\ activeStates # <<>>
    /\ onResize' = SelectSeq(onResize,
                       LAMBDA s : ~(Active(s) /\ states[s].resizeCleanup))
    /\ activeStates' = <<>>
    /\ run' = [run EXCEPT !.destroyed = TRUE]
    /\ UNCHANGED <<cacheVars, asset, lastClick, states, dom>>

NextInit ==
    \/ \E root \in StepRoots : \E readOnly \in BOOLEAN : StartInit(root, readOnly)
    \/ \E c \in DOMAIN dom : LoadFires(c)
    \/ TimerFires
    \/ FrameFires
    \/ DestroyMeanwhile

SpecInit == InitOver(0) /\ [][NextInit]_vars

\* timers and animation frames keep firing
SpecInitFair == SpecInit /\ WF_vars(TimerFires) /\ WF_vars(FrameFires)

InitSettled == run # Null /\ run.settled # "pending"

\* C24: when initQuestions has settled, every container whose own init
\* neither throws nor returns early has been initialised, also behind a
\* container whose init threw.
C24_FailureContained ==
    InitSettled =>
        \A c \in DOMAIN dom :
            ~Throws(dom[c]) /\ ~Abandoned(dom[c]) => dom[c].initialised

\* C25: once destroy() has been called and the initQuestions call pending
\* then has settled, no resize listener of the engine is attached.
C25_NoListenerAfterDestroy ==
    InitSettled /\ run.destroyed => onResize = <<>>

\* the init of a container waits for its background image
InImageWait == Pending /\ run.waits = "image"

\* C26: with timers and animation frames firing, every wait for a
\* background image ends and initQuestions settles, whether the load event
\* comes or not.
C26_ImageWaitEnds ==
    /\ InImageWait ~> ~InImageWait
    /\ Pending ~> InitSettled

\* initQuestions has run to its end over a container whose image never
\* loaded and whose init went on behind the wait
C26_Witness ==
    /\ run # Null
    /\ run.settled = "fulfilled"
    /\ \E c \in DOMAIN dom :
           /\ dom[c].type \in {"ddimageortext", "ddmarker"}
           /\ dom[c].bgImg \in {"loading", "broken"}
           /\ dom[c].initialised

(***************************************************************************)
(* Review mode                                                             *)
(***************************************************************************)
\* every scan of container c was one with readOnly set
ScannedReadOnly(c) ==
    /\ \E s \in DOMAIN states : states[s].container = c
    /\ \A s \in DOMAIN states : states[s].container = c => states[s].readOnly

\* C27: a click on an item, a slot, the background or the home area of a
\* container scanned with readOnly set changes no state object and nothing
\* in the container: no selection, no placement, no hidden value.
C27_ReadOnlyIgnoresClicks ==
    lastClick # Null /\ ScannedReadOnly(lastClick.c) =>
        /\ states = lastClick.states
        /\ dom = lastClick.dom

\* a click on an item of a read-only container that shows an item as placed
C27_Witness ==
    /\ lastClick # Null
    /\ ScannedReadOnly(lastClick.c)
    /\ lastClick.on = "drag"
    /\ dom[lastClick.c].type = "ddwtos"
    /\ ~dom[lastClick.c].drags[lastClick.target].unplaced

(***************************************************************************)
(* Overlapping puts                                                        *)
(*                                                                         *)
(* A client issues put while earlier puts are suspended at their storage   *)
(* operations; the store starts empty or one entry below its capacity.     *)
(***************************************************************************)
InitOverlap ==
    /\ siteUrl = ""
    /\ token = ""
    /\ navOnline \in BOOLEAN
    /\ onlineSignal = navOnline
    /\ events = <<>>
    /\ now = 0
    /\ \E n \in {0, MAX_CACHE_ENTRIES - 1} :
           store = PrefilledStore(n) /\ index = PrefilledIndex(n)
    /\ calls = [c \in CallIds |-> IdleCall]
    /\ ops = [o \in OverlapIds |-> IdleOp]
    /\ putCount = 0
    /\ lastPut = Null
    /\ NothingShown

OverlapStep(o) ==
    \/ \E in \in ClearInputs, data \in Payloads : StartPutMeanwhile(o, in[1], in[2], data)
    \/ PutSet(o)
    \/ PutIndexRead(o)
    \/ PutIndexWrite(o)
    \/ PutEvictRead(o)
    \/ \E key \in ops[o].toRemove : PutEvictRemove(o, key)
    \/ PutEvictWrite(o)
    \/ ReleaseOp(o)

NextOverlap == \E o \in OverlapIds : OverlapStep(o)

SpecOverlap == InitOverlap /\ [][NextOverlap]_vars

\* no cache operation is in flight
Quiescent == \A o \in DOMAIN ops : ops[o].pc \in {"idle", "done"}

\* C28: when no cache operation is in flight, the index lists exactly the
\* keys that have an entry in the store, however the puts that ran
\* overlapped.
C28_IndexMatchesStore ==
    Quiescent => KeySet(IndexKeys) = DOMAIN store

(***************************************************************************)
(* Keys of parameter objects that hold objects and arrays                  *)
(***************************************************************************)
Texts == {"a", "b"}

\* what the call sites pass on: flat parameters, an array of numbers, an
\* object in an object and an object in an array
NestedInputs ==
    { <<"mod_forum_get_discussion_posts", ParamsPosts(i)>> : i \in 1..2 }
    \cup { <<"mod_assign_get_assignments", ParamsCourses(i)>> : i \in 1..2 }
    \cup { <<"mod_assign_save_submission", ParamsSaveText(t)>> : t \in Texts }
    \cup { <<"core_message_send_messages_to_conversation", ParamsSendMessage(t)>> :
             t \in Texts }

NestedStep(o) ==
    \/ \E in \in NestedInputs, data \in Payloads : StartPut(o, in[1], in[2], data)
    \/ \E in \in NestedInputs : StartGet(o, in[1], in[2])
    \/ PutSet(o)
    \/ PutIndexRead(o)
    \/ PutIndexWrite(o)
    \/ PutEvictRead(o)
    \/ GetRead(o)
    \/ GetCheck(o)
    \/ ReleaseOp(o)

NextNested == \E o \in OpIds : NestedStep(o)

SpecNested == InitOver(0) /\ [][NextNested]_vars

\* C29: a get for the function of the last put, with parameters that
\* differ from those of the put in a value, has another key than the put,
\* and when it is the only put so far the get finds nothing.
C29_DifferentParamsDifferentKeys ==
    \A o \in OpIds :
        ( /\ ops[o].kind = "get"
          /\ lastPut # Null
          /\ ops[o].wsFunction = lastPut.wsFunction
          /\ ops[o].params # lastPut.params )
        => /\ ops[o].key # lastPut.key
           /\ ops[o].pc = "done" /\ putCount = 1 => ops[o].value = Null

(***************************************************************************)
(* Account switch                                                          *)
(*                                                                         *)
(* Two accounts of one site.  The server answers a request with the data   *)
(* of the account whose token the request carries.                         *)
(***************************************************************************)
SwitchTokens == {"tokA", "tokB"}

\* what the server holds for the owner of a token
Served(t) ==
    IF t = "tokA" THEN [kind |-> "json", body |-> "d1"]
    ELSE [kind |-> "json", body |-> "d2"]

\* a call in flight at a switch keeps the token its request has left under;
\* a call that has not sent its request yet is marked as begun before
Overtaken(rec, old) ==
    IF rec.pc = "fetch" /\ rec.sent \notin SwitchTokens THEN [rec EXCEPT !.sent = old]
    ELSE IF rec.pc # "idle" /\ rec.sent = "" THEN [rec EXCEPT !.sent = "before"]
    ELSE rec

\* AuthService.switchAccount and login call api.configure(siteUrl, token),
\* part_002 lines 131 and 107-144; logout calls api.configure('', ''), line
\* 157.  Nothing else of the gateway or the cache is touched.
SwitchAccount(s, t) ==
    /\ NoneSettled
    /\ <<s, t>> # <<siteUrl, token>>
    /\ siteUrl' = s
    /\ token' = t
    /\ calls' = [c \in DOMAIN calls |-> Overtaken(calls[c], token)]
    /\ UNCHANGED <<navOnline, onlineSignal, events, now, store, index, ops, putCount,
                   lastPut, uiVars>>

\* the token the request of call c carries, lines 86-91
RequestToken(c) == IF calls[c].sent \in SwitchTokens THEN calls[c].sent ELSE token

OkResponse(d) ==
    [transport |-> "ok", body |-> "json", exception |-> "", errorcode |-> "", data |-> d]

Rejection ==
    [transport |-> "reject", body |-> "none", exception |-> "", errorcode |-> "",
     data |-> Null]

SwitchStep(c) ==
    \/ \E in \in GatewayInputs, skipCache \in BOOLEAN : StartCall(c, in[1], in[2], skipCache)
    \/ CallOfflineRead(c)
    \/ CallFreshRead(c)
    \/ CallFreshCheck(c)
    \/ CallFetchFails(c, Rejection)
    \/ CallFetchSucceeds(c, OkResponse(Served(RequestToken(c))))
    \/ CallStaleRead(c)
    \/ ForgetCall(c)

SwitchPutStep(o) ==
    \/ PutSet(o)
    \/ PutIndexRead(o)
    \/ PutIndexWrite(o)
    \/ PutEvictRead(o)
    \/ ReleaseOp(o)

NextSwitch ==
    \/ \E c \in CallIds : SwitchStep(c)
    \/ \E o \in OpIds : SwitchPutStep(o)
    \/ \E t \in SwitchTokens : \E s \in SiteUrls : SwitchAccount(s, t)
    \/ SwitchAccount("", "")

SpecSwitch == InitOver(0) /\ [][NextSwitch]_vars

\* C30: a call made under the session that is configured now, with no
\* switch since it began, returns the data of that session's account and
\* none that was fetched under another token.
C30_NoPayloadOfPreviousSession ==
    \A c \in CallIds :
        ( /\ calls[c].pc = "done"
          /\ calls[c].outcome = "returned"
          /\ calls[c].sent = ""
          /\ token # "" )
        => calls[c].value = Served(token)
(***************************************************************************)
(* State-changing remote functions                                         *)
(*                                                                         *)
(* The device stays online; the feature services send messages and save    *)
(* submissions through call, as MessageService.sendMessage and             *)
(* AssignmentService.saveOnlineText do, without the bypass flag.           *)
(***************************************************************************)
\* message.service.ts lines 66-71, assignment.service.ts lines 101-112
StateChanging ==
    { "core_message_send_messages_to_conversation", "mod_assign_save_submission" }

MutatingInputs ==
    { <<"core_message_send_messages_to_conversation", ParamsSendMessage(t)>> : t \in Texts }
    \cup { <<"mod_assign_save_submission", ParamsSaveText(t)>> : t \in Texts }

InitMutate == InitOver(0) /\ navOnline

MutateStep(c) ==
    \/ \E in \in MutatingInputs : StartCall(c, in[1], in[2], FALSE)
    \/ CallFreshRead(c)
    \/ CallFreshCheck(c)
    \/ CallFetchFails(c, Rejection)
    \/ \E d \in Payloads : CallFetchSucceeds(c, OkResponse(d))
    \/ CallStaleRead(c)
    \/ ForgetCall(c)

NextMutate ==
    \/ \E c \in CallIds : MutateStep(c)
    \/ \E o \in OpIds : SwitchPutStep(o)
    \/ \E s \in SiteUrls, t \in Tokens : Configure(s, t)
    \/ \E d \in TickSteps : Tick(d)

SpecMutate == InitMutate /\ [][NextMutate]_vars

\* C31: online, a call of a state-changing function without the bypass
\* flag that gets past the configuration check has issued a request by the
\* time it settles.
C31_StateChangingReachesServer ==
    \A c \in CallIds :
        ( /\ calls[c].pc = "done"
          /\ calls[c].wsFunction \in StateChanging
          /\ ~calls[c].skipCache
          /\ calls[c].value # NOT_CONFIGURED )
        => calls[c].net
(***************************************************************************)
(* C32  Word bank: the hidden inputs and the placement map                 *)
(***************************************************************************)
\* every slot's input names the choice of the item state.placed assigns to
\* the slot, and reads as empty ("0", or the "" the markup came with) for
\* a slot no item is assigned to
SlotsFollowMap(placed, d) ==
    \A p \in DOMAIN d.values :
        LET here == {i \in DOMAIN d.drags : PlaceOf(placed, d.drags[i].no) = p}
        IN  IF here = {} THEN NumberOf(d.values[p]) = 0
            ELSE \A i \in here : d.values[p] = ToString(d.drags[i].choice)

\* C32: in a word bank whose inputs agreed with the placement map before a
\* click, they agree with it after the click, the slot an item was moved
\* away from included.
C32_InputsFollowPlacementMap ==
    \A s \in DOMAIN states :
        ( /\ states[s].type = "ddwtos"
          /\ lastClick # Null
          /\ lastClick.c = states[s].container
          /\ SlotsFollowMap(lastClick.states[s].placed, lastClick.dom[lastClick.c]) )
        => SlotsFollowMap(states[s].placed, dom[states[s].container])
(***************************************************************************)
(* C33  Image drop: one instance per slot                                  *)
(***************************************************************************)
\* the instances whose inputid attribute names the hidden input of drop p
InstancesAt(d, p) == {i \in DOMAIN d.drags : d.drags[i].inputid = d.drops[p].inputid}

\* every slot holds at most one instance, and its input names the choice of
\* that instance or reads as empty ("0", or the "" the markup came with)
OneInstancePerSlot(d) ==
    \A p \in DOMAIN d.drops :
        /\ Cardinality(InstancesAt(d, p)) <= 1
        /\ IF InstancesAt(d, p) = {}
               THEN NumberOf(d.values[d.drops[p].inputid]) = 0
               ELSE \A i \in InstancesAt(d, p) :
                        d.values[d.drops[p].inputid] = ToString(d.drags[i].choice)

\* C33: in an image-drop container in which every slot held at most one
\* instance and every input named its slot's instance before a click, the
\* same is true after the click.
C33_OneInstancePerSlot ==
    ( /\ lastClick # Null
      /\ dom[lastClick.c].type = "ddimageortext"
      /\ OneInstancePerSlot(lastClick.dom[lastClick.c]) )
    => OneInstancePerSlot(dom[lastClick.c])
(***************************************************************************)
(* Marker containers that come without an answer                           *)
(***************************************************************************)
\* one choice with one or two markers, or any number of them; every hidden
\* input is empty
BlankMarkers ==
    { [MarkerDrop(<< <<>> >>) EXCEPT
          !.homes = << [choice |-> 1, noofdrags |-> n, infinite |-> inf] >>] :
      n \in 1..2, inf \in BOOLEAN }

NextBlank ==
    \/ \E readOnly \in BOOLEAN, ratio \in AllRatios :
           \E q \in BlankMarkers : InitQuestions(<<q>>, readOnly, ratio)
    \/ \E c \in DOMAIN dom : ClickHome(c)
    \/ \E c \in DOMAIN dom, offset \in ClickPoints : ClickBackground(c, offset)
    \/ \E ratio \in AllRatios : Resize(ratio)
    \/ Destroy

SpecBlank == InitOver(0) /\ [][NextBlank]_vars

\* the choice of home h has markers left to place
MarkersLeft(d, h) ==
    \/ d.homes[h].infinite
    \/ Len(WellFormed(d.values[d.homes[h].choice])) < d.homes[h].noofdrags

\* a draggable of the choice lies over the home and listens to clicks
Selectable(d, choiceNo) ==
    \E i \in DOMAIN d.drags :
        /\ d.drags[i].choice = choiceNo
        /\ d.drags[i].unplaced
        /\ d.drags[i].owner # 0

\* C34: after the scan of an editable marker container that came with
\* empty hidden inputs, and after every redraw since, every choice with
\* markers left to place has a selectable draggable in the home pool.
C34_FirstMarkerSelectable ==
    \A s \in DOMAIN states :
        ( /\ states[s].type = "ddmarker"
          /\ ~states[s].readOnly
          /\ JustRedrawn(s) )
        => \A h \in DOMAIN dom[states[s].container].homes :
               MarkersLeft(dom[states[s].container], h)
               => Selectable(dom[states[s].container],
                             dom[states[s].container].homes[h].choice)
(***************************************************************************)
(* C35  Entries the index does not list                                    *)
(***************************************************************************)
\* the store holds an entry under key and the index does not list the key
Orphaned(key) == key \in DOMAIN store /\ key \notin KeySet(IndexKeys)

\* C35: a get or getStale that completes while no other cache operation is
\* in flight, for a key whose entry the store holds and the index does not
\* list, returns absent.
C35_OrphanedEntryIsAbsent ==
    [][\A o \in DOMAIN ops :
        ( /\ ops[o].kind \in {"get", "getStale"}
          /\ ReadCompletes(o)
          /\ \A p \in DOMAIN ops \ {o} : ops[p].pc = "idle"
          /\ Orphaned(ops[o].key) )
        => ops'[o].value = Null
    ]_vars
(***************************************************************************)
(* Overlapping calls for one key                                           *)
(*                                                                         *)
(* A view and its refresh issue the same call while the first is still in  *)
(* flight; both requests are answered, with the same or with different     *)
(* data, and each response is written through.                             *)
(***************************************************************************)
InitTwin ==
    /\ siteUrl = ""
    /\ token = ""
    /\ navOnline = TRUE
    /\ onlineSignal = navOnline
    /\ events = <<>>
    /\ now = 0
    /\ store = << >>
    /\ index = Null
    /\ calls = [c \in OverlapIds |-> IdleCall]
    /\ ops = [o \in OverlapIds |-> IdleOp]
    /\ putCount = 0
    /\ lastPut = Null
    /\ NothingShown

TwinStep(c) ==
    \/ \E in \in GatewayInputs, skipCache \in BOOLEAN : StartCall(c, in[1], in[2], skipCache)
    \/ CallFreshRead(c)
    \/ CallFreshCheck(c)
    \/ \E d \in Payloads : CallFetchSucceeds(c, OkResponse(d))
    \/ ForgetCall(c)

NextTwin ==
    \/ \E c \in OverlapIds : TwinStep(c)
    \/ \E o \in OverlapIds : SwitchPutStep(o)
    \/ \E s \in SiteUrls, t \in Tokens : Configure(s, t)

SpecTwin == InitTwin /\ [][NextTwin]_vars

TwinKey == buildKey("mod_forum_get_discussion_posts", ParamsPost1)

\* the number of times the index lists key
Listed(key) == Cardinality({i \in DOMAIN IndexKeys : IndexKeys[i] = key})

\* put o runs its storage.set at this step
Writes(o) == ops[o].pc = "set" /\ ops'[o].pc = "idxRead"

\* C36: once the write-throughs of calls for one key have finished, however
\* the calls and the writes overlapped, the store holds one entry, under
\* that key, and the index lists the key once; and the entry is the one of
\* the write that ran last: every write leaves its own entry in the store,
\* and nothing but a write changes the store.
C36_LaterWriteWins ==
    /\ [](Quiescent /\ store # << >> => DOMAIN store = {TwinKey} /\ Listed(TwinKey) = 1)
    /\ [][ /\ \A o \in DOMAIN ops : Writes(o) => store' = (ops[o].key :> ops[o].entry)
           /\ store' # store => \E o \in DOMAIN ops : Writes(o) ]_vars

\* two write-throughs for the key with different payloads are in flight
\* together, both have written the entry and the index, and the store
\* holds the entry of the one that started first
C36_Witness ==
    /\ ops[1].pc = "evictRead"
    /\ ops[2].pc = "evictRead"
    /\ ops[1].key = TwinKey
    /\ ops[2].key = TwinKey
    /\ ops[1].entry.data # ops[2].entry.data
    /\ store[TwinKey] = ops[1].entry
    /\ Listed(TwinKey) = 1
(***************************************************************************)
(* Eviction on a store whose removals can fail                             *)
(*                                                                         *)
(* StorageService.remove awaits store.delete and store.save and rejects    *)
(* when either does.                                                       *)
(***************************************************************************)
\* evictIfNeeded, line 162: Promise.all rejects with the first rejection,
\* nothing between it and the caller of put catches; rejected records that
\* it was a removal of the eviction pass that failed
RemovalRejected(rec) == [OpThrew(rec) EXCEPT !.rejected = TRUE]

\* storage.remove(key) rejects under evictIfNeeded; the removals issued
\* with it that have not settled yet take effect (landed) or fail as well
PutEvictRemoveFails(o, key, landed) ==
    /\ NoneSettled
    /\ ops[o].pc = "evictRemove"
    /\ key \in ops[o].toRemove
    /\ landed \subseteq ops[o].toRemove \ {key}
    /\ store' = [k \in DOMAIN store \ landed |-> store[k]]
    /\ ops' = [ops EXCEPT ![o] = RemovalRejected(ops[o])]
    /\ UNCHANGED <<siteUrl, token, navOnline, onlineSignal, events, now, index, calls,
                   putCount, lastPut, uiVars>>

EvictFailStep(o) ==
    \/ LruStep(o)
    \/ \E key \in ops[o].toRemove :
           \E landed \in SUBSET (ops[o].toRemove \ {key}) : PutEvictRemoveFails(o, key, landed)

NextEvictFail ==
    \/ \E o \in OpIds : EvictFailStep(o)
    \/ \E d \in TickSteps : Tick(d)

SpecEvictFail == InitOver(MAX_CACHE_ENTRIES - 1) /\ [][NextEvictFail]_vars

\* C37: a put that has completed after a removal of its eviction pass was
\* rejected has completed successfully.
C37_EvictionFailureSwallowed ==
    \A o \in DOMAIN ops :
        ( /\ ops[o].kind = "put"
          /\ ops[o].pc = "done"
          /\ ops[o].rejected )
        => ops[o].outcome = "returned"
(***************************************************************************)
(* Image drop: repositioning                                               *)
(*                                                                         *)
(* The scan and the viewport resizes of an image-drop question, with the   *)
(* clicks that come between them; lastClick holds the world each           *)
(* reposition found.                                                       *)
(***************************************************************************)
\* images with one instance per choice, and with as many instances of the
\* first choice as there are drops
RepositionRoots ==
    ImageRoots \cup TwiceNamedRoots
    \cup { << [ImageDrop(v, n) EXCEPT !.homes[1].infinite = TRUE] >> :
              v \in { <<"1", "">>, <<"1", "1">> }, n \in BOOLEAN }

\* initQuestions(root, readOnly), lines 85-103; the scan of an image ends in
\* ddImageRepositionAll, line 469.  The root holds one container
Scanned(root, readOnly, ratio) ==
    /\ dom = << >>
    /\ LET shown == AtRatio(root, ratio)
           W == InitFrom(World(states, shown), InitOrder(shown), 1, readOnly)
       IN  /\ Becomes(W)
           /\ activeStates' = activeStates \o
                  [k \in 1..Len(InitOrder(shown)) |-> NewStateId(states) + k - 1]
           /\ lastClick' = [on |-> "scan", c |-> 1, target |-> 0,
                            states |-> states, dom |-> shown]
    /\ UNCHANGED scanVars
    /\ UNCHANGED <<cacheVars, asset>>

\* the resize listener of line 476 runs ddImageRepositionAll
Resized(ratio) ==
    /\ dom # << >>
    /\ Becomes(ResizeFrom(World(states, AtRatio(dom, ratio)), activeStates, 1))
    /\ lastClick' = [on |-> "resize", c |-> 1, target |-> 0,
                     states |-> states, dom |-> AtRatio(dom, ratio)]
    /\ UNCHANGED scanVars
    /\ UNCHANGED <<cacheVars, asset, activeStates>>

NextReposition ==
    \/ \E readOnly \in BOOLEAN, ratio \in Ratios :
           \E root \in RepositionRoots : Scanned(root, readOnly, ratio)
    \/ \E c \in DOMAIN dom : \E i \in DOMAIN dom[c].drags : ClickDrag(c, i)
    \/ \E c \in DOMAIN dom : \E p \in 1..2 : ClickDrop(c, p)
    \/ \E c \in DOMAIN dom : ClickHome(c)
    \/ \E ratio \in Ratios : Resized(ratio)

SpecReposition == InitOver(0) /\ [][NextReposition]_vars

Repositioned == lastClick # Null /\ lastClick.on \in {"scan", "resize"}

\* the choice the hidden input of drop p names, 0 for none
Named(d, p) ==
    IF d.drops[p].inputid \in DOMAIN d.values
        THEN NumberOf(d.values[d.drops[p].inputid]) ELSE 0

\* the instances drawn over drop p
ShownAt(d, p) == {i \in DOMAIN d.drags : d.drags[i].at = p}

\* the place of drop p in the order the drops are gone through
OrderOf(d, p) == CHOOSE k \in DOMAIN d.dropOrder : d.dropOrder[k] = p

\* the instances a reposition can hand out for drop p: of its group and of
\* the choice its input names, not held selected
Supply(d, p) ==
    {i \in DOMAIN d.drags :
        /\ d.drags[i].group = d.drops[p].group
        /\ d.drags[i].choice = Named(d, p)
        /\ ~d.drags[i].beingdragged}

\* the drops up to and including p that name the choice p names
Demand(d, p) ==
    {q \in DOMAIN d.drops :
        /\ d.drops[q].group = d.drops[p].group
        /\ Named(d, q) = Named(d, p)
        /\ OrderOf(d, q) <= OrderOf(d, p)}

\* drop p names a choice of which an unplaced instance is left for it
InstanceLeft(d, p) ==
    Named(d, p) > 0 /\ Cardinality(Demand(d, p)) <= Cardinality(Supply(d, p))
\* C38: after a reposition of an image-drop container, every drop whose
\* hidden input names a choice with an unplaced instance left shows one
\* instance, of that choice; no drop shows two instances; every instance
\* not matched to a drop is over its home; and the hidden inputs are as
\* the reposition found them.
C38_RepositionRematches ==
    Repositioned /\ activeStates # <<>> =>
        LET c == lastClick.c
            d == dom[c]
        IN  /\ \A p \in DOMAIN d.drops :
                   /\ InstanceLeft(d, p)
                       => /\ Cardinality(ShownAt(d, p)) = 1
                          /\ \A i \in ShownAt(d, p) :
                                 d.drags[i].choice = Named(d, p) /\ d.drags[i].placed
                   /\ Cardinality(ShownAt(d, p)) <= 1
            /\ \A i \in DOMAIN d.drags : ~d.drags[i].placed => d.drags[i].at = AtHome
            /\ d.values = lastClick.dom[c].values
(***************************************************************************)
(* C39  Word bank: one click selects                                       *)
(***************************************************************************)
\* C39: in an editable word bank, once a click on an item that was not
\* selected has been delivered to the item's listener and to those of its
\* ancestors, the item is selected, also when the items lie in the .drags
\* element the engine made inside the answer container.
C39_ClickSelects ==
    ( /\ lastClick # Null
      /\ lastClick.on = "drag"
      /\ lastClick.dom[lastClick.c].type = "ddwtos"
      /\ lastClick.dom[lastClick.c].drags[lastClick.target].owner # 0
      /\ ~lastClick.dom[lastClick.c].drags[lastClick.target].selected )
    => /\ dom[lastClick.c].drags[lastClick.target].selected
       /\ states[dom[lastClick.c].drags[lastClick.target].owner].selected = lastClick.target
(***************************************************************************)
(* Scans of markup that carries any answer                                 *)
(***************************************************************************)
\* word banks whose inputs are empty, name a word once, name one word
\* twice, and name a choice the bank has no word for
AnsweredWordBanks ==
    { WordBank(v, h) : v \in { <<"", "">>, <<"2", "">>, <<"2", "2">>, <<"3", "0">> },
                       h \in BOOLEAN }

ScanRoots ==
    { <<q>> : q \in AnsweredWordBanks } \cup ImageRoots \cup TwiceNamedRoots
    \cup MarkerRoots

NextScan ==
    \/ \E readOnly \in BOOLEAN, ratio \in Ratios :
           \E root \in ScanRoots : Scanned(root, readOnly, ratio)
    \/ \E c \in DOMAIN dom : \E i \in DOMAIN dom[c].drags : ClickDrag(c, i)
    \/ \E c \in DOMAIN dom : \E p \in 1..2 : ClickDrop(c, p)
    \/ \E c \in DOMAIN dom : ClickHome(c)
    \/ \E c \in DOMAIN dom, offset \in ClickPoints : ClickBackground(c, offset)
    \/ Destroy

SpecScan == InitOver(0) /\ [][NextScan]_vars

\* C40: the scan of a container leaves every hidden input with the value
\* the markup carried, also a value that names a choice of which no
\* unplaced item is available.
C40_ScanKeepsValues ==
    lastClick # Null /\ lastClick.on = "scan"
    => \A c \in DOMAIN dom : dom[c].values = lastClick.dom[c].values
====
